---- MODULE Spec2Model ----
(***************************************************************************)
(* Competency hybrid search engine: the Entity Service                     *)
(* (domain/services/entity_service.py) orchestrating the dense and sparse  *)
(* encoders and the Qdrant repository                                      *)
(* (adapters/infrastructure/qdrant/repository.py).                         *)
(*                                                                         *)
(* One action per public operation of EntityService.  Each action runs the *)
(* whole handler: it records, in order, every call the handler makes to an *)
(* encoder or to the repository (calls), the way the handler ends (last)   *)
(* and the effect of the repository calls on the collection (store).       *)
(***************************************************************************)
EXTENDS Integers, Sequences, FiniteSets, TLC

VARIABLES
    store,   \* the Qdrant collection: identifier -> stored point, or Absent
    last,    \* the last service call: operation, arguments, outcome, value
    calls,   \* the encoder and repository calls made by the last service call
    mapper,  \* the data importer's mapper instance, built from a raw record
    inflight,    \* the API requests in progress: process -> position, arguments
    collections, \* the names of the collections the Qdrant instance holds
    workers      \* the worker processes starting up: worker -> position

vars == <<store, last, calls, mapper, inflight, collections, workers>>

----------------------------------------------------------------------------
(* Bounds of the model.                                                    *)

NumIds == 2          \* identifiers uuid4 may draw
MaxTop == 1          \* largest `top` of a search
NumWorkers == 3      \* worker processes starting up at the same time

----------------------------------------------------------------------------
(* Values.                                                                 *)

\* Python's None, where a record (competency, entity, vector) is expected.
None == [none |-> TRUE]

\* Python's None where a str is expected: a value that is no string of Chars.
NoText == <<"None">>

\* No identifier and no `top` (operations that take none).
NoId == 0
NoTop == 0

Ids == 1..NumIds

IsSpace(c) == c \in {" ", "\n"}

\* The texts the operations are called with, as sequences of characters:
\* "", " ", "a", " a" and "b".
Strings == {<<>>, <<" ">>, <<"a">>, <<" ", "a">>, <<"b">>}

OptStrings == Strings \cup {NoText}

Titles == {"Baker"}

\* domain/types/competency.py: title is required, indexed_text is optional.
Competency == [title : Titles, indexed_text : OptStrings]

----------------------------------------------------------------------------
(* str.strip() and the truth value of a str | None.                        *)

RECURSIVE lstrip(_)
lstrip(s) ==
    IF s = <<>> THEN <<>>
    ELSE IF IsSpace(Head(s)) THEN lstrip(Tail(s)) ELSE s

RECURSIVE rstrip(_)
rstrip(s) ==
    IF s = <<>> THEN <<>>
    ELSE IF IsSpace(s[Len(s)]) THEN rstrip(SubSeq(s, 1, Len(s) - 1)) ELSE s

strip_identity(s) == s

strip(s) == rstrip(lstrip(s))

Truthy_not_none(text) == text # NoText

\* `if text` / `not text` of Python on a str | None.
Truthy(text) == text # NoText /\ text # <<>>

----------------------------------------------------------------------------
(* The encoders.  An encoder is a deterministic function of the text it is *)
(* given; whether a given call raises is an input of the action.           *)

CharCode(c) == IF IsSpace(c) THEN 0 ELSE IF c = "a" THEN 1 ELSE 2

\* HuggingfaceEmbeddingService.encode: DenseVector(values=...)
DenseEncode(text) == [values |-> [i \in 1..Len(text) |-> CharCode(text[i])]]

RECURSIVE ActiveIndices(_, _)
ActiveIndices(text, i) ==
    IF i > Len(text) THEN <<>>
    ELSE IF IsSpace(text[i]) THEN ActiveIndices(text, i + 1)
         ELSE <<i>> \o ActiveIndices(text, i + 1)

\* HuggingfaceSparseEmbeddingService.encode: SparseVector(indices=..., values=...)
SparseEncode(text) ==
    LET idx == ActiveIndices(text, 1)
    IN  [indices |-> idx,
         values |-> [i \in 1..Len(idx) |-> CharCode(text[idx[i]])]]

----------------------------------------------------------------------------
(* Calls and their results.                                                *)

\* What a call gave back: a value, or the exception it raised.
Returned(value) == [raised |-> "", value |-> value]
Raised(exception) == [raised |-> exception, value |-> None]

\* The result of running a handler or a repository method on a collection:
\* the calls it made, how it ended, what it returned, the collection after.
Run(cs, outcome, value, st) ==
    [calls |-> cs, outcome |-> outcome, value |-> value, store |-> st]

RetOf(r) == IF r.outcome = "ok" THEN Returned(r.value) ELSE Raised(r.outcome)

DenseCall(text, ret) == [fn |-> "dense.encode", text |-> text, ret |-> ret]
SparseCall(text, ret) == [fn |-> "sparse.encode", text |-> text, ret |-> ret]
GetCall(identifier, ret) ==
    [fn |-> "repository.get_entity", identifier |-> identifier, ret |-> ret]
CreateCall(model, ret) ==
    [fn |-> "repository.create_entity", model |-> model, ret |-> ret]
UpdateCall(model, ret) ==
    [fn |-> "repository.update_entity", model |-> model, ret |-> ret]
DeleteCall(identifier, ret) ==
    [fn |-> "repository.delete_entity", identifier |-> identifier,
     ret |-> ret]
VectorSearchCall(vector, filters, top, vector_name, ret) ==
    [fn |-> "repository.search_by_vector_and_filters", vector |-> vector,
     filters |-> filters, top |-> top, vector_name |-> vector_name,
     ret |-> ret]
HybridSearchCall(dense_vector, sparse_vector, filters, top, ret) ==
    [fn |-> "repository.search_hybrid_by_vectors_and_filters",
     dense_vector |-> dense_vector, sparse_vector |-> sparse_vector,
     filters |-> filters, top |-> top, ret |-> ret]

----------------------------------------------------------------------------
(* The Qdrant collection and QdrantRepository.                             *)

Absent == [absent |-> TRUE]

\* Competency.model_dump(exclude_none=True): the fields that are not None.
model_dump(competency) ==
    IF competency.indexed_text = NoText
    THEN [title |-> competency.title]
    ELSE [title |-> competency.title, indexed_text |-> competency.indexed_text]

\* Competency(**payload): a field missing from the payload is None.
CompetencyFromPayload(payload) ==
    [title |-> payload.title,
     indexed_text |-> IF "indexed_text" \in DOMAIN payload
                      THEN payload.indexed_text ELSE NoText]

\* PointStruct(id, vector={dense: values, sparse: {indices, values}}, payload)
PointStruct(competency, dense_vector, sparse_vector) ==
    [payload |-> model_dump(competency),
     vector |-> [dense |-> dense_vector.values,
                 sparse |-> [indices |-> sparse_vector.indices,
                             values |-> sparse_vector.values]]]

Entity(identifier, competency, dense_vector, sparse_vector) ==
    [identifier |-> identifier, competency |-> competency,
     dense_vector |-> dense_vector, sparse_vector |-> sparse_vector]

\* What client.upsert may answer: a status, or an exception.
UpsertAnswers == {"completed", "acknowledged", "raise"}

\* QdrantRepository.get_entity
repo_get_entity(st, identifier, retrieved) ==
    IF ~retrieved THEN Run(<<>>, "RepositoryError", None, st)
    ELSE IF st[identifier] = Absent THEN Run(<<>>, "ok", None, st)
    ELSE LET point == st[identifier]
             dense_data == point.vector.dense
             sparse_data == point.vector.sparse
         IN  Run(<<>>, "ok",
                 Entity(identifier,
                        CompetencyFromPayload(point.payload),
                        IF dense_data # <<>> THEN [values |-> dense_data]
                        ELSE None,
                        [indices |-> sparse_data.indices,
                         values |-> sparse_data.values]),
                 st)

\* QdrantRepository.create_entity: upsert a point under a fresh identifier.
repo_create_entity(st, model, new_id, answer) ==
    LET point == PointStruct(model.competency, model.dense_vector,
                             model.sparse_vector)
        written == [st EXCEPT ![new_id] = point]
    IN  IF answer = "raise" THEN Run(<<>>, "RepositoryError", None, st)
        ELSE IF answer # "completed"
             THEN Run(<<>>, "RepositoryError", None, written)
             ELSE Run(<<>>, "ok", Entity(new_id, model.competency, None, None),
                      written)

\* QdrantRepository.update_entity: upsert the point under model.identifier;
\* the answer's status is not read.
repo_update_entity(st, model, answer) ==
    IF model.dense_vector = None \/ model.sparse_vector = None
    THEN Run(<<>>, "AttributeError", None, st)
    ELSE LET point == PointStruct(model.competency, model.dense_vector,
                                  model.sparse_vector)
         IN  IF answer = "raise" THEN Run(<<>>, "RepositoryError", None, st)
             ELSE Run(<<>>, "ok",
                      Entity(model.identifier, model.competency, None, None),
                      [st EXCEPT ![model.identifier] = point])

repo_delete_entity_keeps_point(st, identifier, deleted) ==
    IF ~deleted THEN Run(<<>>, "RepositoryError", None, st)
    ELSE Run(<<>>, "ok", None, st)

\* QdrantRepository.delete_entity: delete the point, present or not.
repo_delete_entity(st, identifier, deleted) ==
    IF ~deleted THEN Run(<<>>, "RepositoryError", None, st)
    ELSE Run(<<>>, "ok", None, [st EXCEPT ![identifier] = Absent])

----------------------------------------------------------------------------
(* EntityService: create, get, update, delete.                             *)

EncodeBoth_dense_twice(text, denseOk, sparseOk) ==
    IF ~denseOk
    THEN [calls |-> <<DenseCall(text, Raised("Exception"))>>, ok |-> FALSE]
    ELSE [calls |-> <<DenseCall(text, Returned(DenseEncode(text))),
                      DenseCall(text, Returned(DenseEncode(text)))>>,
          ok |-> TRUE,
          dense_vector |-> DenseEncode(text),
          sparse_vector |-> SparseEncode(text)]

EncodeBoth_ignore_sparse_error(text, denseOk, sparseOk) ==
    IF ~denseOk
    THEN [calls |-> <<DenseCall(text, Raised("Exception"))>>, ok |-> FALSE]
    ELSE [calls |-> <<DenseCall(text, Returned(DenseEncode(text))),
                      SparseCall(text,
                                 IF sparseOk
                                 THEN Returned(SparseEncode(text))
                                 ELSE Raised("Exception"))>>,
          ok |-> TRUE,
          dense_vector |-> DenseEncode(text),
          sparse_vector |-> IF sparseOk THEN SparseEncode(text)
                            ELSE [indices |-> <<>>, values |-> <<>>]]

\* Lines 66-70, 132-136 and 211-215: encode with dense, then with sparse; an
\* exception of either one ends the handler with EmbeddingError.
EncodeBoth(text, denseOk, sparseOk) ==
    IF ~denseOk
    THEN [calls |-> <<DenseCall(text, Raised("Exception"))>>, ok |-> FALSE]
    ELSE IF ~sparseOk
         THEN [calls |-> <<DenseCall(text, Returned(DenseEncode(text))),
                           SparseCall(text, Raised("Exception"))>>,
               ok |-> FALSE]
         ELSE [calls |-> <<DenseCall(text, Returned(DenseEncode(text))),
                           SparseCall(text, Returned(SparseEncode(text)))>>,
               ok |-> TRUE,
               dense_vector |-> DenseEncode(text),
               sparse_vector |-> SparseEncode(text)]

create_entity_validate_late(st, competency, text, denseOk, sparseOk, new_id, answer) ==
    LET t == IF text # NoText THEN strip(text) ELSE <<>>
        enc == EncodeBoth(t, denseOk, sparseOk)
    IN  IF ~enc.ok THEN Run(enc.calls, "EmbeddingError", None, st)
        ELSE IF ~Truthy(t) THEN Run(enc.calls, "ValidationError", None, st)
        ELSE LET model == [competency |-> competency,
                           dense_vector |-> enc.dense_vector,
                           sparse_vector |-> enc.sparse_vector]
                 r == repo_create_entity(st, model, new_id, answer)
             IN  Run(enc.calls \o <<CreateCall(model, RetOf(r))>>,
                     r.outcome, r.value, r.store)

\* EntityService.create_entity
create_entity(st, competency, text, denseOk, sparseOk, new_id, answer) ==
    LET t == IF Truthy(text) THEN strip(text) ELSE NoText
    IN  IF ~Truthy(t) THEN Run(<<>>, "ValidationError", None, st)
        ELSE LET enc == EncodeBoth(t, denseOk, sparseOk)
             IN  IF ~enc.ok THEN Run(enc.calls, "EmbeddingError", None, st)
                 ELSE LET model == [competency |-> competency,
                                    dense_vector |-> enc.dense_vector,
                                    sparse_vector |-> enc.sparse_vector]
                          r == repo_create_entity(st, model, new_id, answer)
                      IN  Run(enc.calls \o <<CreateCall(model, RetOf(r))>>,
                              r.outcome, r.value, r.store)

get_entity_taking_the_point(st, identifier, retrieved) ==
    LET r == repo_get_entity(st, identifier, retrieved)
        cs == <<GetCall(identifier, RetOf(r))>>
    IN  IF r.outcome # "ok" THEN Run(cs, r.outcome, None, st)
        ELSE IF r.value = None THEN Run(cs, "EntityNotFoundError", None, st)
        ELSE Run(cs, "ok", r.value, [st EXCEPT ![identifier] = Absent])

get_entity_wrong_error(st, identifier, retrieved) ==
    LET r == repo_get_entity(st, identifier, retrieved)
        cs == <<GetCall(identifier, RetOf(r))>>
    IN  IF r.outcome # "ok" THEN Run(cs, r.outcome, None, st)
        ELSE IF r.value = None THEN Run(cs, "ValidationError", None, st)
        ELSE Run(cs, "ok", r.value, st)

\* EntityService.get_entity
get_entity(st, identifier, retrieved) ==
    LET r == repo_get_entity(st, identifier, retrieved)
        cs == <<GetCall(identifier, RetOf(r))>>
    IN  IF r.outcome # "ok" THEN Run(cs, r.outcome, None, st)
        ELSE IF r.value = None THEN Run(cs, "EntityNotFoundError", None, st)
        ELSE Run(cs, "ok", r.value, st)

reuse_vectors_always(text, entity) == TRUE

reuse_only_without_text(text, entity) == text = NoText

\* Line 122: the vectors of the stored entity are reused.
reuse_vectors(text, entity) ==
    text = NoText \/ entity.competency.indexed_text = text

\* EntityService.update_entity from line 120 on: `got` is what get_entity
\* gave at line 118, `st` the collection at the time of the upsert.
update_entity_write(st, got, identifier, competency, text, denseOk, sparseOk, answer) ==
    LET entity == got.value
        Write(cs, dense_vector, sparse_vector) ==
            LET model == [identifier |-> identifier,
                          competency |-> competency,
                          dense_vector |-> dense_vector,
                          sparse_vector |-> sparse_vector]
                r == repo_update_entity(st, model, answer)
            IN  Run(cs \o <<UpdateCall(model, RetOf(r))>>,
                    r.outcome, r.value, r.store)
    IN  IF got.outcome # "ok" THEN got
        ELSE IF reuse_vectors(text, entity)
             THEN Write(got.calls, entity.dense_vector, entity.sparse_vector)
             ELSE LET t == strip(text)
                  IN  IF ~Truthy(t)
                      THEN Run(got.calls, "ValidationError", None, st)
                      ELSE LET enc == EncodeBoth(t, denseOk, sparseOk)
                           IN  IF ~enc.ok
                               THEN Run(got.calls \o enc.calls,
                                        "EmbeddingError", None, st)
                               ELSE Write(got.calls \o enc.calls,
                                          enc.dense_vector, enc.sparse_vector)

\* EntityService.update_entity
update_entity(st, identifier, competency, text, denseOk, sparseOk, retrieved, answer) ==
    update_entity_write(st, get_entity(st, identifier, retrieved), identifier,
                        competency, text, denseOk, sparseOk, answer)

delete_entity_unchecked(st, identifier, retrieved, deleted) ==
    LET r == repo_delete_entity(st, identifier, deleted)
    IN  Run(<<DeleteCall(identifier, RetOf(r))>>, r.outcome, None, r.store)

\* EntityService.delete_entity at line 154: `got` is what get_entity gave
\* at line 152, `st` the collection at the time of the deletion.
delete_entity_write(st, got, identifier, deleted) ==
    IF got.outcome # "ok" THEN got
    ELSE LET r == repo_delete_entity(st, identifier, deleted)
         IN  Run(got.calls \o <<DeleteCall(identifier, RetOf(r))>>,
                 r.outcome, None, r.store)

\* EntityService.delete_entity
delete_entity(st, identifier, retrieved, deleted) ==
    delete_entity_write(st, get_entity(st, identifier, retrieved), identifier,
                        deleted)

----------------------------------------------------------------------------
(* Search.                                                                 *)

\* domain/types/search_type.py, and one value outside the enumeration.
SearchTypes == {"semantic", "sparse", "hybrid", "INVALID_TYPE"}

\* domain/types/filters.py: DomainFilter(field, operator, value)
DomainFilter(field, operator, value) ==
    [field |-> field, operator |-> operator, value |-> value]

\* The filter sequences a search is called with.
SampleFilters ==
    {<<>>,
     <<DomainFilter("lang", "EQUAL", "fr")>>,
     <<DomainFilter("provider", "NOT_EQUAL", "esco"),
       DomainFilter("type", "IN", <<"skill">>)>>}

\* How _build_search_filters ends inside the repository's try block: Filter()
\* for no filter; otherwise the store's filter model accepts the conditions,
\* rejects one (PydanticValidationError) or fails otherwise.
BuildOutcomes(filters) ==
    IF filters = <<>> THEN {"ok"} ELSE {"ok", "pydantic", "other"}

\* The points the store may answer a query with: distinct stored points,
\* at most `limit` of them, in the store's order.
Responses(st, limit) ==
    {r \in UNION {[1..n -> Ids] : n \in 0..limit} :
        /\ \A i \in 1..Len(r) : st[r[i]] # Absent
        /\ \A i, j \in 1..Len(r) : i # j => r[i] # r[j]}

\* Lines 353-362 and 450-459: one SearchResult per point, in response order.
SearchResults(st, response) ==
    [i \in 1..Len(response) |->
        [entity |-> Entity(response[i],
                           CompetencyFromPayload(st[response[i]].payload),
                           None, None),
         score |-> Len(response) + 1 - i]]

\* QdrantRepository.search_by_vector_and_filters
repo_search_by_vector_and_filters(st, vector, filters, top, vector_name, built, searched, response) ==
    IF built = "pydantic" THEN Run(<<>>, "ValidationError", None, st)
    ELSE IF built # "ok" THEN Run(<<>>, "RepositoryError", None, st)
    ELSE IF vector_name \notin {"sparse", "dense"}
         THEN Run(<<>>, "RepositoryError", None, st)
    ELSE IF ~searched THEN Run(<<>>, "RepositoryError", None, st)
    ELSE Run(<<>>, "ok", SearchResults(st, response), st)

\* QdrantRepository.search_hybrid_by_vectors_and_filters
repo_search_hybrid_by_vectors_and_filters(st, dense_vector, sparse_vector, filters, top, built, searched, response) ==
    IF built = "pydantic" THEN Run(<<>>, "ValidationError", None, st)
    ELSE IF built # "ok" THEN Run(<<>>, "RepositoryError", None, st)
    ELSE IF ~searched THEN Run(<<>>, "RepositoryError", None, st)
    ELSE Run(<<>>, "ok", SearchResults(st, response), st)

semantic_search_by_sparse_name(st, t, filters, top, denseOk, built, searched, response) ==
    IF ~denseOk
    THEN Run(<<DenseCall(t, Raised("Exception"))>>, "EmbeddingError", None, st)
    ELSE LET v == DenseEncode(t)
             r == repo_search_by_vector_and_filters(
                      st, v, filters, top, "dense", built, searched, response)
         IN  Run(<<DenseCall(t, Returned(v)),
                   VectorSearchCall(v, filters, top, "sparse", RetOf(r))>>,
                 r.outcome, r.value, r.store)

\* Lines 184-195: the SEMANTIC branch.
semantic_search(st, t, filters, top, denseOk, built, searched, response) ==
    IF ~denseOk
    THEN Run(<<DenseCall(t, Raised("Exception"))>>, "EmbeddingError", None, st)
    ELSE LET v == DenseEncode(t)
             r == repo_search_by_vector_and_filters(
                      st, v, filters, top, "dense", built, searched, response)
         IN  Run(<<DenseCall(t, Returned(v)),
                   VectorSearchCall(v, filters, top, "dense", RetOf(r))>>,
                 r.outcome, r.value, r.store)

\* Lines 197-208: the SPARSE branch.
sparse_search(st, t, filters, top, sparseOk, built, searched, response) ==
    IF ~sparseOk
    THEN Run(<<SparseCall(t, Raised("Exception"))>>, "EmbeddingError", None,
             st)
    ELSE LET v == SparseEncode(t)
             r == repo_search_by_vector_and_filters(
                      st, v, filters, top, "sparse", built, searched, response)
         IN  Run(<<SparseCall(t, Returned(v)),
                   VectorSearchCall(v, filters, top, "sparse", RetOf(r))>>,
                 r.outcome, r.value, r.store)

\* Lines 210-222: the HYBRID branch.
hybrid_search(st, t, filters, top, denseOk, sparseOk, built, searched, response) ==
    LET enc == EncodeBoth(t, denseOk, sparseOk)
    IN  IF ~enc.ok THEN Run(enc.calls, "EmbeddingError", None, st)
        ELSE LET r == repo_search_hybrid_by_vectors_and_filters(
                          st, enc.dense_vector, enc.sparse_vector, filters,
                          top, built, searched, response)
             IN  Run(enc.calls \o
                     <<HybridSearchCall(enc.dense_vector, enc.sparse_vector,
                                        filters, top, RetOf(r))>>,
                     r.outcome, r.value, r.store)

search_default_semantic(st, text, filters, top, search_type, denseOk, sparseOk, built, searched, response) ==
    LET t == strip(text)
    IN  IF ~Truthy(t) THEN Run(<<>>, "ValidationError", None, st)
        ELSE IF search_type = "sparse"
        THEN sparse_search(st, t, filters, top, sparseOk, built, searched,
                           response)
        ELSE IF search_type = "hybrid"
        THEN hybrid_search(st, t, filters, top, denseOk, sparseOk, built,
                           searched, response)
        ELSE semantic_search(st, t, filters, top, denseOk, built, searched,
                             response)

\* EntityService.search_by_text_and_filters_with_type
search_by_text_and_filters_with_type(st, text, filters, top, search_type, denseOk, sparseOk, built, searched, response) ==
    LET t == strip(text)
    IN  IF ~Truthy(t) THEN Run(<<>>, "ValidationError", None, st)
        ELSE IF search_type = "semantic"
        THEN semantic_search(st, t, filters, top, denseOk, built, searched,
                             response)
        ELSE IF search_type = "sparse"
        THEN sparse_search(st, t, filters, top, sparseOk, built, searched,
                           response)
        ELSE IF search_type = "hybrid"
        THEN hybrid_search(st, t, filters, top, denseOk, sparseOk, built,
                           searched, response)
        ELSE Run(<<>>, "ValidationError", None, st)

----------------
(* The state machine: one service call after the other.  A handler ends at *)
(* the first call that fails, so a service call meets at most one fault.   *)

Call(op, identifier, competency, text, filters, top, search_type, run) ==
    [op |-> op, identifier |-> identifier, competency |-> competency,
     text |-> text, filters |-> filters, top |-> top,
     search_type |-> search_type, outcome |-> run.outcome,
     value |-> run.value]

\* No service call is in progress.
Idle ==
    [op |-> "none", identifier |-> NoId, competency |-> None,
     text |-> NoText, filters |-> <<>>, top |-> NoTop,
     search_type |-> "", outcome |-> "ok", value |-> None]

\* No mapper instance is built.
NoMapper == [provider |-> "none"]

\* Two processes serving API requests at the same time, and a process
\* serving none.
Procs == {1, 2}
NoRequest == [pc |-> "idle"]

\* gunicorn's worker processes, and a worker that has not run lifespan yet.
Workers == 1..NumWorkers
NotStarted == [pc |-> "start"]

Init ==
    /\ store = [i \in Ids |-> Absent]
    /\ mapper = NoMapper
    /\ inflight = [p \in Procs |-> NoRequest]
    /\ collections = {}
    /\ workers = [w \in Workers |-> NotStarted]
    /\ last = Idle
    /\ calls = <<>>

Finish(op, identifier, competency, text, filters, top, search_type, run) ==
    /\ store' = run.store
    /\ UNCHANGED <<mapper, inflight, collections, workers>>
    /\ calls' = run.calls
    /\ last' = Call(op, identifier, competency, text, filters, top,
                    search_type, run)

\* The answer of client.upsert under a fault.
UpsertAnswer(fault) ==
    IF fault = "upsert" THEN "raise"
    ELSE IF fault = "status" THEN "acknowledged" ELSE "completed"

CreateEntity ==
    /\ last = Idle
    /\ \E competency \in Competency, text \in OptStrings,
       fault \in {"none", "dense", "sparse", "upsert", "status"},
       new_id \in {i \in Ids : store[i] = Absent} :
        Finish("create_entity", NoId, competency, text, <<>>, NoTop, "",
               create_entity(store, competency, text, fault # "dense",
                             fault # "sparse", new_id, UpsertAnswer(fault)))

GetEntity ==
    /\ last = Idle
    /\ \E identifier \in Ids, fault \in {"none", "retrieve"} :
        Finish("get_entity", identifier, None, NoText, <<>>, NoTop, "",
               get_entity(store, identifier, fault # "retrieve"))

UpdateEntity ==
    /\ last = Idle
    /\ \E identifier \in Ids, competency \in Competency, text \in OptStrings,
       fault \in {"none", "retrieve", "dense", "sparse", "upsert", "status"} :
        Finish("update_entity", identifier, competency, text, <<>>, NoTop,
               "",
               update_entity(store, identifier, competency, text,
                             fault # "dense", fault # "sparse",
                             fault # "retrieve", UpsertAnswer(fault)))

DeleteEntity ==
    /\ last = Idle
    /\ \E identifier \in Ids, fault \in {"none", "retrieve", "delete"} :
        Finish("delete_entity", identifier, None, NoText, <<>>, NoTop, "",
               delete_entity(store, identifier, fault # "retrieve",
                             fault # "delete"))

Search ==
    /\ last = Idle
    /\ \E text \in Strings, filters \in SampleFilters, top \in 1..MaxTop,
       search_type \in SearchTypes :
      \E fault \in {"none", "dense", "sparse", "search"}
                   \cup (BuildOutcomes(filters) \ {"ok"}) :
        \E response \in IF fault = "none" THEN Responses(store, top)
                        ELSE {<<>>} :
          Finish("search", NoId, None, text, filters, top, search_type,
                 search_by_text_and_filters_with_type(
                     store, text, filters, top, search_type,
                     fault # "dense", fault # "sparse",
                     IF fault \in BuildOutcomes(filters) THEN fault ELSE "ok",
                     fault # "search", response))

\* The service call returns to its caller; the service keeps nothing of it.
Return ==
    /\ last # Idle
    /\ last' = Idle
    /\ calls' = <<>>
    /\ UNCHANGED <<store, mapper, inflight, collections, workers>>

Next ==
    \/ CreateEntity
    \/ GetEntity
    \/ UpdateEntity
    \/ DeleteEntity
    \/ Search
    \/ Return

Spec == Init /\ [][Next]_vars

----------------------------------------------------------------------------
(* Vocabulary of the properties.                                           *)

\* None, empty or whitespace-only.
IsBlank(text) == text = NoText \/ \A i \in 1..Len(text) : IsSpace(text[i])

Spaces(n) == [i \in 1..n |-> " "]

\* The text without its leading and trailing whitespace: the part t of s
\* that neither starts nor ends with a space, s being spaces, t, spaces.
Trimmed(s) ==
    CHOOSE t \in {SubSeq(s, i, j) : i \in 1..(Len(s) + 1), j \in 0..Len(s)} :
        /\ t = <<>> \/ (~IsSpace(t[1]) /\ ~IsSpace(t[Len(t)]))
        /\ \E m, n \in 0..Len(s) : s = Spaces(m) \o t \o Spaces(n)

IsEncoderCall(c) == c.fn \in {"dense.encode", "sparse.encode"}

IsSearchCall(c) ==
    c.fn \in {"repository.search_by_vector_and_filters",
              "repository.search_hybrid_by_vectors_and_filters"}

\* No encoder call of the log raised.
NoEncoderRaised(cs) ==
    \A i \in 1..Len(cs) : IsEncoderCall(cs[i]) => cs[i].ret.raised = ""

\* The log starts with a repository.get_entity that returned.
Retrieved(cs) ==
    /\ Len(cs) >= 1
    /\ cs[1].fn = "repository.get_entity"
    /\ cs[1].ret.raised = ""

\* What a stored point holds.
StoredText(point) ==
    IF "indexed_text" \in DOMAIN point.payload
    THEN point.payload.indexed_text ELSE NoText
StoredDense(point) == [values |-> point.vector.dense]
StoredSparse(point) ==
    [indices |-> point.vector.sparse.indices,
     values |-> point.vector.sparse.values]

\* The handler ended the way repository call c ended.
EndsAs(c, outcome, value) ==
    IF c.ret.raised = "" THEN outcome = "ok" /\ value = c.ret.value
    ELSE outcome = c.ret.raised

----------------------------------------------------------------------------
(* Properties of EntityService.                                            *)

\* C1: create_entity with a text that is None, empty or whitespace-only
\* raises ValidationError and calls neither encoder nor the repository.
C1_CreateBlankTextRejected ==
    (last.op = "create_entity" /\ IsBlank(last.text))
        => (last.outcome = "ValidationError" /\ calls = <<>>)

C1_Witness ==
    /\ last.op = "create_entity"
    /\ last.text = <<" ">>
    /\ last.outcome = "ValidationError"

\* The calls of a create_entity on `encoded`, the text given to the encoders.
CreateCallsOn(encoded) ==
    /\ Len(calls) = 3
    /\ calls[1].fn = "dense.encode" /\ calls[1].text = encoded
    /\ calls[2].fn = "sparse.encode" /\ calls[2].text = encoded
    /\ calls[3].fn = "repository.create_entity"
    /\ calls[3].model = [competency |-> last.competency,
                         dense_vector |-> calls[1].ret.value,
                         sparse_vector |-> calls[2].ret.value]
    /\ EndsAs(calls[3], last.outcome, last.value)
    /\ last.outcome = "ok" =>
        /\ last.value.competency = last.competency
        /\ last.value.identifier \in Ids
        /\ store[last.value.identifier] # Absent

\* C2 as stated: for a non-blank text and working encoders, create_entity
\* calls dense once and sparse once on the text it was given, then
\* repository.create_entity once with the input competency and the two
\* vectors, and returns the repository's entity.
C2_Original ==
    (last.op = "create_entity" /\ ~IsBlank(last.text)
     /\ NoEncoderRaised(calls))
        => CreateCallsOn(last.text)

\* C2 amended: the same, the encoders being called on the trimmed text.
C2_CreateEncodesTrimmedText ==
    (last.op = "create_entity" /\ ~IsBlank(last.text)
     /\ NoEncoderRaised(calls))
        => CreateCallsOn(Trimmed(last.text))

C2_Witness ==
    /\ last.op = "create_entity"
    /\ last.text = <<" ", "a">>
    /\ last.outcome = "ok"
    /\ Len(calls) = 3

\* C3: update_entity on an existing entity reuses the stored vectors, with no
\* encoder call, when text is None or equals the stored indexed_text; any
\* other non-blank text is encoded once by each encoder and
\* repository.update_entity receives the new vectors.
C3_UpdateVectorReuse ==
    [][(last'.op = "update_entity" /\ Retrieved(calls')
        /\ store[last'.identifier] # Absent)
       => LET id == last'.identifier
              point == store[id]
              text == last'.text
          IN  IF text = NoText \/ text = StoredText(point)
              THEN /\ Len(calls') = 2
                   /\ calls'[2].fn = "repository.update_entity"
                   /\ calls'[2].model =
                        [identifier |-> id,
                         competency |-> last'.competency,
                         dense_vector |-> StoredDense(point),
                         sparse_vector |-> StoredSparse(point)]
              ELSE (~IsBlank(text) /\ NoEncoderRaised(calls'))
                   => /\ Len(calls') = 4
                      /\ calls'[2].fn = "dense.encode"
                      /\ calls'[2].text = Trimmed(text)
                      /\ calls'[3].fn = "sparse.encode"
                      /\ calls'[3].text = Trimmed(text)
                      /\ calls'[4].fn = "repository.update_entity"
                      /\ calls'[4].model =
                           [identifier |-> id,
                            competency |-> last'.competency,
                            dense_vector |-> calls'[2].ret.value,
                            sparse_vector |-> calls'[3].ret.value]]_vars

C3_Witness ==
    /\ last.op = "update_entity"
    /\ last.text = <<"a">>
    /\ last.outcome = "ok"
    /\ Len(calls) = 2
    /\ calls[2].fn = "repository.update_entity"

\* C4 as stated: update_entity on an existing entity raises ValidationError
\* for every empty or whitespace-only text, whatever the stored indexed_text,
\* and calls neither encoder nor repository.update_entity.
C4_Original ==
    (last.op = "update_entity" /\ Retrieved(calls)
     /\ calls[1].ret.value # None
     /\ last.text # NoText /\ IsBlank(last.text))
        => (last.outcome = "ValidationError" /\ Len(calls) = 1)

\* C4 amended: ... for every empty or whitespace-only text that differs from
\* the stored indexed_text.
C4_UpdateBlankTextRejected ==
    [][(last'.op = "update_entity" /\ Retrieved(calls')
        /\ store[last'.identifier] # Absent
        /\ last'.text # NoText /\ IsBlank(last'.text)
        /\ last'.text # StoredText(store[last'.identifier]))
       => (last'.outcome = "ValidationError" /\ Len(calls') = 1
           /\ store' = store)]_vars

C4_Witness ==
    /\ last.op = "update_entity"
    /\ last.text = <<" ">>
    /\ last.outcome = "ValidationError"
    /\ Retrieved(calls)

\* C5: get_entity and update_entity raise EntityNotFoundError exactly when
\* repository.get_entity returns None; update_entity then calls no encoder and
\* no repository.update_entity; otherwise get_entity returns the repository's
\* entity unchanged.
C5_NotFoundIffRepositoryNone ==
    [][(last'.op \in {"get_entity", "update_entity"})
       => LET id == last'.identifier
              got == calls'[1]
              none == got.ret.raised = "" /\ got.ret.value = None
          IN  /\ Len(calls') >= 1
              /\ got.fn = "repository.get_entity"
              /\ got.identifier = id
              /\ got.ret.raised = "" => (none <=> store[id] = Absent)
              /\ last'.outcome = "EntityNotFoundError" <=> none
              /\ none => (Len(calls') = 1 /\ store' = store)
              /\ (last'.op = "get_entity" /\ got.ret.raised = "" /\ ~none)
                    => /\ last'.outcome = "ok"
                       /\ last'.value = got.ret.value
                       /\ last'.value =
                            Entity(id, [title |-> store[id].payload.title,
                                        indexed_text |-> StoredText(store[id])],
                                   StoredDense(store[id]),
                                   StoredSparse(store[id]))
                       /\ store' = store]_vars

C5_Witness ==
    /\ last.op = "update_entity"
    /\ last.outcome = "EntityNotFoundError"
    /\ last.text = <<"a">>

\* C6: delete_entity reads the entity through repository.get_entity and only
\* then calls repository.delete_entity: never for an absent identifier
\* (EntityNotFoundError), exactly once with the identifier for a present one;
\* after a successful delete a following get_entity raises
\* EntityNotFoundError.
C6_DeleteAfterExistenceCheck ==
    [][(last'.op = "delete_entity")
       => LET id == last'.identifier
          IN  /\ Len(calls') >= 1
              /\ calls'[1].fn = "repository.get_entity"
              /\ calls'[1].identifier = id
              /\ calls'[1].ret.raised = "" =>
                   IF store[id] = Absent
                   THEN /\ last'.outcome = "EntityNotFoundError"
                        /\ Len(calls') = 1
                        /\ store' = store
                   ELSE /\ Len(calls') = 2
                        /\ calls'[2].fn = "repository.delete_entity"
                        /\ calls'[2].identifier = id
                        /\ last'.outcome = "ok" =>
                             /\ store'[id] = Absent
                             /\ get_entity(store', id, TRUE).outcome =
                                    "EntityNotFoundError"
              /\ calls'[1].ret.raised # "" => Len(calls') = 1]_vars

C6_Witness ==
    /\ last.op = "delete_entity"
    /\ last.outcome = "ok"
    /\ Len(calls) = 2
    /\ store[last.identifier] = Absent

\* C7: search dispatch.  SEMANTIC: dense encoder only, then
\* search_by_vector_and_filters with vector_name dense; SPARSE: sparse encoder
\* only, then the same method with vector_name sparse; HYBRID: both encoders,
\* then search_hybrid_by_vectors_and_filters, each once.  Filters and top go
\* through unchanged and the repository's result is returned as is.
C7_SearchDispatch ==
    (last.op = "search" /\ ~IsBlank(last.text) /\ NoEncoderRaised(calls)
     /\ last.search_type \in {"semantic", "sparse", "hybrid"})
        => LET n == Len(calls)
               VectorSearch(encoder, vector_name) ==
                   /\ n = 2
                   /\ calls[1].fn = encoder
                   /\ calls[1].text = Trimmed(last.text)
                   /\ calls[2].fn = "repository.search_by_vector_and_filters"
                   /\ calls[2].vector = calls[1].ret.value
                   /\ calls[2].vector_name = vector_name
           IN  /\ CASE last.search_type = "semantic" ->
                         VectorSearch("dense.encode", "dense")
                    [] last.search_type = "sparse" ->
                         VectorSearch("sparse.encode", "sparse")
                    [] last.search_type = "hybrid" ->
                         /\ n = 3
                         /\ calls[1].fn = "dense.encode"
                         /\ calls[1].text = Trimmed(last.text)
                         /\ calls[2].fn = "sparse.encode"
                         /\ calls[2].text = Trimmed(last.text)
                         /\ calls[3].fn =
                              "repository.search_hybrid_by_vectors_and_filters"
                         /\ calls[3].dense_vector = calls[1].ret.value
                         /\ calls[3].sparse_vector = calls[2].ret.value
               /\ n >= 2
               /\ calls[n].filters = last.filters
               /\ calls[n].top = last.top
               /\ EndsAs(calls[n], last.outcome, last.value)

C7_Witness ==
    /\ last.op = "search"
    /\ last.search_type = "hybrid"
    /\ last.filters # <<>>
    /\ last.outcome = "ok"
    /\ Len(last.value) >= 1

\* C8: a search whose trimmed text is empty, or whose search_type is none of
\* SEMANTIC, SPARSE, HYBRID, raises ValidationError and calls no encoder and
\* no repository method.
C8_SearchValidation ==
    (last.op = "search"
     /\ (IsBlank(last.text)
         \/ last.search_type \notin {"semantic", "sparse", "hybrid"}))
        => (last.outcome = "ValidationError" /\ calls = <<>>)

C8_Witness ==
    /\ last.op = "search"
    /\ ~IsBlank(last.text)
    /\ last.search_type = "INVALID_TYPE"
    /\ last.outcome = "ValidationError"

\* C9: in create_entity, update_entity and every search branch, an encode
\* call that raises ends the operation with EmbeddingError; no call follows
\* it and the collection is left as it was.
C9_EmbeddingFailureWritesNothing ==
    [][(/\ last'.op \in {"create_entity", "update_entity", "search"}
        /\ \E i \in 1..Len(calls') :
              IsEncoderCall(calls'[i]) /\ calls'[i].ret.raised # "")
       => /\ last'.outcome = "EmbeddingError"
          /\ \A i \in 1..Len(calls') :
                (IsEncoderCall(calls'[i]) /\ calls'[i].ret.raised # "")
                    => i = Len(calls')
          /\ store' = store]_vars

C9_Witness ==
    /\ last.op = "update_entity"
    /\ last.outcome = "EmbeddingError"
    /\ Len(calls) = 3
    /\ calls[3].fn = "sparse.encode"

\* C10 as stated: every ValidationError of create, update and search is
\* raised before any encoder call and before any repository call.
C10_Original ==
    (last.op \in {"create_entity", "update_entity", "search"}
     /\ last.outcome = "ValidationError")
        => calls = <<>>

\* C10 amended: the ValidationError of create_entity, and those of a search
\* for an empty trimmed text or an unsupported search type, come before any
\* call; the one of update_entity comes after the repository.get_entity read
\* and before any other call; the one for filters the store rejects is raised
\* by the repository's search method, after the encoder calls.
C10_ValidationErrorPlace ==
    (last.outcome = "ValidationError")
        => CASE last.op = "create_entity" -> calls = <<>>
             [] last.op = "update_entity" ->
                    /\ Len(calls) = 1
                    /\ calls[1].fn = "repository.get_entity"
                    /\ calls[1].ret.raised = ""
             [] last.op = "search" ->
                    \/ calls = <<>>
                    \/ LET n == Len(calls)
                       IN  /\ IsSearchCall(calls[n])
                           /\ calls[n].ret.raised = "ValidationError"
                           /\ \A i \in 1..(n - 1) :
                                 /\ IsEncoderCall(calls[i])
                                 /\ calls[i].ret.raised = ""
             [] OTHER -> FALSE

C10_Witness ==
    /\ last.op = "search"
    /\ last.outcome = "ValidationError"
    /\ Len(calls) = 3

----------------------------------------------------------------------------
(* QdrantRepository seen from the Qdrant client: the filter it builds and  *)
(* the hybrid query it issues.                                             *)

MaxFilters == 2      \* longest filter sequence translated

\* domain/types/filters.py: DomainFilterOperator
Operators ==
    {"EQUAL", "NOT_EQUAL", "GREATER_THAN", "GREATER_THAN_OR_EQUAL",
     "LESS_THAN", "LESS_THAN_OR_EQUAL", "IN", "NOT_IN"}

FilterFields == {"lang", "level"}

\* The value a filter of each operator is given (value: Any, handed on as
\* it is): a string, a list, a number.
FilterValue(operator) ==
    IF operator \in {"IN", "NOT_IN"} THEN "['fr', 'en']"
    ELSE IF operator \in {"EQUAL", "NOT_EQUAL"} THEN "fr"
    ELSE "3"

DomainFilters ==
    {DomainFilter(f, o, FilterValue(o)) : f \in FilterFields, o \in Operators}

FilterSeqs == UNION {[1..n -> DomainFilters] : n \in 0..MaxFilters}

\* FieldCondition(key, match=MatchValue | MatchAny) or FieldCondition(key,
\* range=Range(gt | gte | lt | lte))
FieldCondition(key, kind, value) == [key |-> key, kind |-> kind, value |-> value]

\* QdrantRepository._create_field_condition
create_field_condition(domain_filter) ==
    LET o == domain_filter.operator
        kind == CASE o \in {"EQUAL", "NOT_EQUAL"} -> "MatchValue"
                  [] o \in {"IN", "NOT_IN"} -> "MatchAny"
                  [] o = "GREATER_THAN" -> "Range.gt"
                  [] o = "GREATER_THAN_OR_EQUAL" -> "Range.gte"
                  [] o = "LESS_THAN" -> "Range.lt"
                  [] o = "LESS_THAN_OR_EQUAL" -> "Range.lte"
    IN  FieldCondition(domain_filter.field, kind, domain_filter.value)

\* must=None / must_not=None of a Filter
NoConditions == <<None>>

\* Filter(must, must_not)
Filter(must, must_not) == [must |-> must, must_not |-> must_not]

IsNegative_not_equal_only(operator) == operator = "NOT_EQUAL"

\* f.operator in (NOT_EQUAL, NOT_IN)
IsNegative(operator) == operator \in {"NOT_EQUAL", "NOT_IN"}

\* The loop of _build_search_filters over filters[1..n]: the two lists.
RECURSIVE Conditions(_, _)
Conditions(filters, n) ==
    IF n = 0 THEN [must |-> <<>>, must_not |-> <<>>]
    ELSE LET acc == Conditions(filters, n - 1)
             condition == create_field_condition(filters[n])
         IN  IF IsNegative(filters[n].operator)
             THEN [acc EXCEPT !.must_not = Append(@, condition)]
             ELSE [acc EXCEPT !.must = Append(@, condition)]

\* QdrantRepository._build_search_filters; `invalid` is the position of the
\* first filter whose condition the client's model rejects (0: none).
build_search_filters(filters, invalid) ==
    IF filters = <<>> THEN Returned(Filter(NoConditions, NoConditions))
    ELSE IF invalid # 0 THEN Raised("PydanticValidationError")
    ELSE LET c == Conditions(filters, Len(filters))
         IN  Returned(Filter(IF c.must # <<>> THEN c.must ELSE NoConditions,
                             IF c.must_not # <<>> THEN c.must_not
                             ELSE NoConditions))

\* Prefetch(using, query, filter, limit)
Prefetch(using, query, filter, limit) ==
    [using |-> using, query |-> query, filter |-> filter, limit |-> limit]

\* client.query_points(prefetch, query=FusionQuery(RRF), query_filter, limit)
QueryPointsCall(prefetch, query, query_filter, limit, ret) ==
    [fn |-> "client.query_points", prefetch |-> prefetch, query |-> query,
     query_filter |-> query_filter, limit |-> limit, ret |-> ret]

hybrid_prefetch_unfiltered_sparse(dense_vector, sparse_vector, qdrant_filter, top) ==
    <<Prefetch("dense", dense_vector.values, qdrant_filter, top),
      Prefetch("sparse", [indices |-> sparse_vector.indices,
                          values |-> sparse_vector.values],
               Filter(NoConditions, NoConditions), top)>>

\* The dense and the sparse sub-query of the hybrid search (lines 409-424).
hybrid_prefetch(dense_vector, sparse_vector, qdrant_filter, top) ==
    <<Prefetch("dense", dense_vector.values, qdrant_filter, top),
      Prefetch("sparse", [indices |-> sparse_vector.indices,
                          values |-> sparse_vector.values],
               qdrant_filter, top)>>

\* QdrantRepository.search_hybrid_by_vectors_and_filters down to the client:
\* build the filter, issue the query, map the points of the response.
search_hybrid_by_vectors_and_filters(st, dense_vector, sparse_vector, filters, top, invalid, searched, response) ==
    LET built == build_search_filters(filters, invalid)
    IN  IF built.raised = "PydanticValidationError"
        THEN Run(<<>>, "ValidationError", None, st)
        ELSE LET qdrant_filter == built.value
                 query(ret) ==
                     QueryPointsCall(
                         hybrid_prefetch(dense_vector, sparse_vector,
                                         qdrant_filter, top),
                         "Fusion.RRF", qdrant_filter, top, ret)
             IN  IF ~searched
                 THEN Run(<<query(Raised("Exception"))>>, "RepositoryError",
                          None, st)
                 ELSE Run(<<query(Returned(response))>>, "ok",
                          SearchResults(st, response), st)

\* The models the collection is filled with.
SampleModels ==
    {[competency |-> [title |-> "Baker", indexed_text |-> t],
      dense_vector |-> DenseEncode(t), sparse_vector |-> SparseEncode(t)] :
        t \in {<<"a">>, <<"b">>}}

\* repository.create_entity(model)
RepoCreateEntity ==
    /\ last = Idle
    /\ \E model \in SampleModels, new_id \in Ids, answer \in UpsertAnswers :
          LET r == repo_create_entity(store, model, new_id, answer)
          IN  /\ store' = r.store
              /\ UNCHANGED <<mapper, inflight, collections, workers>>
              /\ calls' = <<>>
              /\ last' = [op |-> "repository.create_entity", model |-> model,
                          outcome |-> r.outcome, value |-> r.value]

\* QdrantRepository._build_search_filters(filters)
BuildSearchFilters ==
    /\ last = Idle
    /\ \E filters \in FilterSeqs :
       \E invalid \in 0..Len(filters) :
          LET r == build_search_filters(filters, invalid)
          IN  /\ last' = [op |-> "_build_search_filters", filters |-> filters,
                          outcome |-> IF r.raised = "" THEN "ok" ELSE r.raised,
                          value |-> r.value]
              /\ calls' = <<>>
              /\ UNCHANGED <<store, mapper, inflight, collections, workers>>

\* repository.search_hybrid_by_vectors_and_filters(dense, sparse, filters, top)
SearchHybrid ==
    /\ last = Idle
    /\ \E text \in {<<"a">>, <<"b">>}, filters \in SampleFilters,
          top \in 1..MaxTop, fault \in {"none", "filters", "query"} :
       \E response \in IF fault = "none" THEN Responses(store, top) ELSE {<<>>} :
          LET invalid == IF fault = "filters" /\ filters # <<>> THEN 1 ELSE 0
              r == search_hybrid_by_vectors_and_filters(
                       store, DenseEncode(text), SparseEncode(text), filters,
                       top, invalid, fault # "query", response)
          IN  /\ last' = [op |-> "search_hybrid_by_vectors_and_filters",
                          dense_vector |-> DenseEncode(text),
                          sparse_vector |-> SparseEncode(text),
                          filters |-> filters, top |-> top,
                          outcome |-> r.outcome, value |-> r.value]
              /\ calls' = r.calls
              /\ store' = r.store
              /\ UNCHANGED <<mapper, inflight, collections, workers>>

RepositoryNext ==
    \/ RepoCreateEntity
    \/ BuildSearchFilters
    \/ SearchHybrid
    \/ Return

RepositorySpec == Init /\ [][RepositoryNext]_vars

\* The filters of the given sign, in input order.
NegativeOperators == {"NOT_EQUAL", "NOT_IN"}

FiltersOfSign(filters, negative) ==
    SelectSeq(filters, LAMBDA f : (f.operator \in NegativeOperators) = negative)

\* The number of conditions of a must / must_not attribute.
NumConditions(conditions) ==
    IF conditions = NoConditions THEN 0 ELSE Len(conditions)

\* `conditions` holds one condition per filter of `selected`, in order.
OnePerFilter(conditions, selected) ==
    /\ NumConditions(conditions) = Len(selected)
    /\ selected # <<>> =>
          \A i \in 1..Len(selected) :
             /\ conditions[i].key = selected[i].field
             /\ conditions[i].value = selected[i].value

\* C11: the filter _build_search_filters returns holds one must_not
\* condition per NOT_EQUAL or NOT_IN filter and one must condition per filter
\* of any other operator, each list in input order, so the two lists together
\* have as many conditions as there are filters; no filter gives a Filter with
\* neither must nor must_not.
C11_FilterPartition ==
    (last.op = "_build_search_filters" /\ last.outcome = "ok")
        => LET f == last.value
           IN  /\ OnePerFilter(f.must, FiltersOfSign(last.filters, FALSE))
               /\ OnePerFilter(f.must_not, FiltersOfSign(last.filters, TRUE))
               /\ NumConditions(f.must) + NumConditions(f.must_not)
                     = Len(last.filters)
               /\ last.filters = <<>> =>
                     (f.must = NoConditions /\ f.must_not = NoConditions)

C11_Witness ==
    /\ last.op = "_build_search_filters"
    /\ last.outcome = "ok"
    /\ Len(last.filters) = 2
    /\ last.filters[1].operator = "NOT_IN"
    /\ last.filters[2].operator = "IN"
    /\ Len(last.value.must) = 1
    /\ Len(last.value.must_not) = 1

----------------------------------------------------------------------------
(* The data importer: Python's str methods on strings held as sequences of *)
(* characters.                                                              *)

IsDigit(c) == c \in {"0", "1", "2", "3", "4", "5", "6", "7", "8", "9"}

\* str.upper / str.lower of one character
Upper(c) ==
    CASE c = "a" -> "A" [] c = "b" -> "B" [] c = "c" -> "C" [] OTHER -> c

Lower(c) ==
    CASE c = "A" -> "a" [] c = "B" -> "b" [] c = "C" -> "c" [] OTHER -> c

\* str.capitalize: the first character upper case, the others lower case
capitalize(s) ==
    IF s = <<>> THEN s
    ELSE <<Upper(s[1])>> \o [i \in 1..(Len(s) - 1) |-> Lower(s[i + 1])]

\* ord(c), for the characters used
Ord(c) ==
    CASE c = "\n" -> 10 [] c = " " -> 32 [] c = "#" -> 35 [] c = "$" -> 36
      [] c = "," -> 44 [] c = "-" -> 45 [] c = "." -> 46 [] c = "/" -> 47
      [] c = "0" -> 48 [] c = "1" -> 49 [] c = "2" -> 50 [] c = "3" -> 51
      [] c = "4" -> 52 [] c = "5" -> 53 [] c = "6" -> 54 [] c = "7" -> 55
      [] c = "8" -> 56 [] c = "9" -> 57 [] c = "A" -> 65 [] c = "B" -> 66
      [] c = "C" -> 67 [] c = "a" -> 97 [] c = "b" -> 98 [] c = "c" -> 99
      [] c = "|" -> 124

\* s < t for str: the first differing character decides, a proper prefix is
\* smaller
RECURSIVE StrLess(_, _)
StrLess(s, t) ==
    IF t = <<>> THEN FALSE
    ELSE IF s = <<>> THEN TRUE
    ELSE IF s[1] # t[1] THEN Ord(s[1]) < Ord(t[1])
    ELSE StrLess(Tail(s), Tail(t))

\* sorted(set): the strings of a set, ascending
RECURSIVE sorted(_)
sorted(S) ==
    IF S = {} THEN <<>>
    ELSE LET least == CHOOSE x \in S : \A y \in S \ {x} : StrLess(x, y)
         IN  <<least>> \o sorted(S \ {least})

\* The elements of a list, as a set
Range(seq) == {seq[i] : i \in 1..Len(seq)}

\* str.find(sub) + 1: where sub first starts in s, 0 when it does not occur
Find(s, sub) ==
    LET at == {i \in 1..(Len(s) - Len(sub) + 1) :
                  SubSeq(s, i, i + Len(sub) - 1) = sub}
    IN  IF at = {} THEN 0 ELSE CHOOSE i \in at : \A j \in at : i <= j

\* str.rfind(sub) + 1
RFind(s, sub) ==
    LET at == {i \in 1..(Len(s) - Len(sub) + 1) :
                  SubSeq(s, i, i + Len(sub) - 1) = sub}
    IN  IF at = {} THEN 0 ELSE CHOOSE i \in at : \A j \in at : i >= j

\* sub in s
Contains(s, sub) == Find(s, sub) # 0

\* str.split(sep)
RECURSIVE split(_, _)
split(s, sep) ==
    LET i == Find(s, sep)
    IN  IF i = 0 THEN <<s>>
        ELSE <<SubSeq(s, 1, i - 1)>>
                 \o split(SubSeq(s, i + Len(sep), Len(s)), sep)

\* str.split(): the words between runs of whitespace
RECURSIVE words(_)
words(s) ==
    LET t == lstrip(s)
        gaps == {i \in 1..Len(t) : IsSpace(t[i])}
        end == IF gaps = {} THEN Len(t) + 1
               ELSE CHOOSE i \in gaps : \A j \in gaps : i <= j
    IN  IF t = <<>> THEN <<>>
        ELSE <<SubSeq(t, 1, end - 1)>> \o words(SubSeq(t, end, Len(t)))

\* sep.join(parts)
RECURSIVE join(_, _)
join(sep, parts) ==
    IF parts = <<>> THEN <<>>
    ELSE IF Len(parts) = 1 THEN parts[1]
    ELSE parts[1] \o sep \o join(sep, Tail(parts))

\* str.replace(old, new)
RECURSIVE replace(_, _, _)
replace(s, old, new) ==
    LET i == Find(s, old)
    IN  IF i = 0 THEN s
        ELSE SubSeq(s, 1, i - 1) \o new
                 \o replace(SubSeq(s, i + Len(old), Len(s)), old, new)

----------------------------------------------------------------------------
(* The data importer: provider mappers (data_importer/mappers).            *)

\* [x.strip() for x in labels if x.strip()]
StrippedNonBlank(labels) ==
    LET kept == SelectSeq(labels, LAMBDA x : strip(x) # <<>>)
    IN  [i \in 1..Len(kept) |-> strip(kept[i])]

\* data_importer.schemas.Competency(...)
ImportedCompetency(code, lang, type, provider, title, url, category, description, keywords, indexed_text) ==
    [code |-> code, lang |-> lang, type |-> type, provider |-> provider,
     title |-> title, url |-> url, category |-> category,
     description |-> description, keywords |-> keywords,
     indexed_text |-> indexed_text]

\* a or b, for an optional string a
Either(a, b) == IF Truthy(a) THEN a ELSE b

clean_esco_appelation_first_two(appelation) ==
    IF ~Contains(appelation, <<"/">>) THEN <<appelation>>
    ELSE LET raw == split(appelation, <<"/">>)
         IN  <<strip(raw[1]), strip(raw[2])>>

\* EscoMapper.clean_esco_appelation
clean_esco_appelation(appelation) ==
    IF ~Contains(appelation, <<"/">>) THEN <<appelation>>
    ELSE LET raw == split(appelation, <<"/">>)
             parts == [i \in 1..Len(raw) |-> strip(raw[i])]
         IN  IF Len(parts) = 2 THEN <<parts[1], parts[2]>>
             ELSE <<appelation>>

\* The keywords EscoMapper.to_competency collects, before they are made
\* unique (lines 63-86).
esco_collected_keywords(self, cleaned_title) ==
    LET alt_label_list ==
            IF ~Truthy(self.alt_labels) THEN <<>>
            ELSE IF Contains(self.alt_labels, <<" ", "|", " ">>)
                 THEN split(self.alt_labels, <<" ", "|", " ">>)
            ELSE IF Contains(self.alt_labels, <<"\n">>)
                 THEN split(self.alt_labels, <<"\n">>)
            ELSE <<self.alt_labels>>
        hidden_label_list ==
            IF ~Truthy(self.hidden_labels) THEN <<>>
            ELSE split(self.hidden_labels, <<"\n">>)
        cleaned_appelations == clean_esco_appelation(cleaned_title)
    IN  StrippedNonBlank(alt_label_list)
            \o StrippedNonBlank(hidden_label_list)
            \o (IF Len(cleaned_appelations) > 1 THEN cleaned_appelations
                ELSE <<>>)

\* sorted({keyword.capitalize() for keyword in keywords if keyword.strip()})
esco_unique_keywords(keywords) ==
    sorted({capitalize(k) : k \in {x \in Range(keywords) : strip(x) # <<>>}})

esco_fill_on_every_call(current, source, derived) ==
    IF Truthy(source) THEN Either(current, <<>>) \o derived ELSE current

\* if not self.<field> and self.<source>: self.<field> = <derived>
esco_fill(current, source, derived) ==
    IF ~Truthy(current) /\ Truthy(source) THEN derived ELSE current

\* EscoMapper.to_competency: the instance after the call and the Competency
esco_to_competency(self) ==
    LET cleaned_title == capitalize(strip(self.preferred_label))
        code == esco_fill(self.code, self.concept_uri,
                          strip(self.concept_uri))
        category ==
            esco_fill(self.category, self.broader_concept_pt,
                      replace(strip(self.broader_concept_pt),
                              <<" ", "|", " ">>, <<",", " ">>))
        keywords ==
            esco_unique_keywords(esco_collected_keywords(self, cleaned_title))
    IN  [self |-> [self EXCEPT !.code = code, !.category = category],
         value |-> ImportedCompetency(
                       code, self.lang, self.competency_type, self.provider,
                       cleaned_title, self.concept_uri, category,
                       self.description, keywords,
                       Either(self.indexed_text, cleaned_title))]

clean_rome_appelation_no_sharing(appelation) ==
    IF ~Contains(appelation, <<"/">>) THEN <<appelation>>
    ELSE LET raw == split(appelation, <<"/">>)
         IN  IF Len(raw) # 2 THEN <<appelation>>
             ELSE <<strip(raw[1]), strip(raw[2])>>

\* RomeMapper.clean_rome_appelation
clean_rome_appelation(appelation) ==
    IF ~Contains(appelation, <<"/">>) THEN <<appelation>>
    ELSE LET raw == split(appelation, <<"/">>)
             parties == [i \in 1..Len(raw) |-> strip(raw[i])]
         IN  IF Len(parties) # 2 THEN <<appelation>>
             ELSE LET gauche == parties[1]
                      droite == parties[2]
                      mots_gauche == words(gauche)
                      mots_droite == words(droite)
                      nl == Len(mots_gauche)
                      nr == Len(mots_droite)
                      prefixe == join(<<" ">>, SubSeq(mots_gauche, 1, nl - nr))
                      suffixe ==
                          join(<<" ">>, SubSeq(mots_droite, nl + 1, nr))
                      first == IF nr > nl THEN gauche \o <<" ">> \o suffixe
                               ELSE gauche
                      second == IF nl > nr THEN prefixe \o <<" ">> \o droite
                                ELSE droite
                  IN  <<strip(first), strip(second)>>

\* The elements of the lists of a list, as a set
Flatten(lists) == UNION {Range(lists[i]) : i \in 1..Len(lists)}

\* f"<base>{code}"
Url(base, code) == <<base>> \o code

\* RomeMapper.to_competency
rome_to_competency(self) ==
    LET cleaned_keywords ==
            sorted(Flatten([i \in 1..Len(self.keywords) |->
                               clean_rome_appelation(self.keywords[i])]))
    IN  [self |-> self,
         value |-> ImportedCompetency(
                       self.code, self.lang, self.competency_type,
                       self.provider, self.intitule,
                       Url("https://candidat.pole-emploi.fr/metierscope/fiche-metier/", self.code),
                       self.category, self.description, cleaned_keywords,
                       Either(self.indexed_text, self.intitule))]

remove_code_from_str_without_separator(text, code_length_to_remove) ==
    SubSeq(text, code_length_to_remove + 1, Len(text))

\* FormaMapper.remove_code_from_str: text[(code_length_to_remove + 1):]
remove_code_from_str(text, code_length_to_remove) ==
    SubSeq(text, code_length_to_remove + 2, Len(text))

\* [s.strip().capitalize() for s in field.split(sep)] if field else []
synonyms(field, sep) ==
    IF ~Truthy(field) THEN <<>>
    ELSE LET raw == split(field, sep)
         IN  [i \in 1..Len(raw) |-> capitalize(strip(raw[i]))]

\* The terms of a '$'-separated field that are not blank, trimmed
forma_terms(field) ==
    IF ~Truthy(field) THEN <<>>
    ELSE StrippedNonBlank(split(field, <<"$">>))

\* [remove_code_from_str(term.strip(), n) for term in field.split("$")
\*  if term.strip()], capitalized for the specific and associated terms
forma_cleaned_terms(field, n, capitalized) ==
    LET terms == forma_terms(field)
    IN  [i \in 1..Len(terms) |->
            IF capitalized THEN capitalize(remove_code_from_str(terms[i], n))
            ELSE remove_code_from_str(terms[i], n)]

\* The non-empty strings of a list
NonEmpty(strings) == SelectSeq(strings, LAMBDA x : Truthy(x))

\* sorted(set(...)) of the cleaned lists, then
\* [keyword.capitalize() for keyword in cleaned_keywords if keyword]
forma_keywords(lists) ==
    LET cleaned_keywords == NonEmpty(sorted(Flatten(lists)))
    IN  [i \in 1..Len(cleaned_keywords) |-> capitalize(cleaned_keywords[i])]

\* FormaMapper.to_competency
forma_to_competency(self) ==
    LET cleaned_title == capitalize(self.title)
        cleaned_category ==
            IF Truthy(self.category)
            THEN capitalize(remove_code_from_str(self.category, 5))
            ELSE NoText
        cleaned_nsf ==
            IF Truthy(self.NSF) THEN remove_code_from_str(self.NSF, 3)
            ELSE NoText
        cleaned_semantic_field ==
            IF Truthy(self.semantic_field)
            THEN <<capitalize(remove_code_from_str(self.semantic_field, 3))>>
            ELSE <<>>
        cleaned_description ==
            join(<<".", " ">>,
                 NonEmpty(<<cleaned_nsf, self.explication_note,
                            self.application_note>>))
        cleaned_keywords ==
            forma_keywords(<<cleaned_semantic_field,
                             synonyms(self.synonym, <<"$">>),
                             synonyms(self.synonym_job, <<"$">>),
                             forma_cleaned_terms(self.specific_terms, 5, TRUE),
                             forma_cleaned_terms(self.associated_terms, 5,
                                                 TRUE),
                             forma_cleaned_terms(self.ROME, 5, FALSE)>>)
    IN  [self |-> self,
         value |-> ImportedCompetency(
                       self.code, self.lang, self.competency_type,
                       self.provider, cleaned_title,
                       Url("https://formacode.centre-inffo.fr/spip.php?page=thesaurus&fcd_code=", self.code),
                       cleaned_category, cleaned_description,
                       cleaned_keywords,
                       Either(self.indexed_text, cleaned_title))]

\* Forma14Mapper.remove_code_from_str_start: re.search("^\d{n} ", text),
\* then text.split(" ", 1)[1]
remove_code_from_str_start(text, code_length_to_remove) ==
    LET n == code_length_to_remove
        found == /\ Len(text) >= n + 1
                 /\ \A i \in 1..n : IsDigit(text[i])
                 /\ text[n + 1] = " "
    IN  IF found THEN SubSeq(text, Find(text, <<" ">>) + 1, Len(text))
        ELSE text

\* text ends with " - " and n digits
EndsWithCode(text, n) ==
    /\ Len(text) >= n + 3
    /\ \A i \in (Len(text) - n + 1)..Len(text) : IsDigit(text[i])
    /\ SubSeq(text, Len(text) - n - 2, Len(text) - n) = <<" ", "-", " ">>

\* re.search(" - \d{n}$", text): "$" matches at the end of the string and
\* before a newline that ends the string
code_at_end(text, n) ==
    \/ EndsWithCode(text, n)
    \/ /\ text # <<>>
       /\ text[Len(text)] = "\n"
       /\ EndsWithCode(SubSeq(text, 1, Len(text) - 1), n)

\* Forma14Mapper.remove_code_from_str_end: then text.rsplit(" - ", 1)[0]
remove_code_from_str_end(text, code_length_to_remove) ==
    IF code_at_end(text, code_length_to_remove)
    THEN SubSeq(text, 1, RFind(text, <<" ", "-", " ">>) - 1)
    ELSE text

\* [remove_code_from_str_end(term.strip(), 5) for term in field.split(sep)
\*  if term.strip()] if field else []
forma14_cleaned_terms(field, sep) ==
    IF ~Truthy(field) THEN <<>>
    ELSE LET terms == StrippedNonBlank(split(field, sep))
         IN  [i \in 1..Len(terms) |-> remove_code_from_str_end(terms[i], 5)]

\* Forma14Mapper.to_competency
forma14_to_competency(self) ==
    LET cleaned_category == remove_code_from_str_end(self.category, 5)
        cleaned_semantic_field ==
            capitalize(remove_code_from_str_start(self.semantic_field, 3))
        cleaned_description ==
            strip(Either(self.explication_note, <<>>)
                      \o Either(self.application_note, <<>>))
        cleaned_keywords ==
            SelectSeq(
                sorted(Flatten(<<
                    <<cleaned_semantic_field>>,
                    synonyms(self.synonym, <<"#", "#", "#">>),
                    synonyms(self.synonym_job, <<"#", "#", "#">>),
                    forma14_cleaned_terms(self.specific_terms,
                                          <<"#", "#", "#">>),
                    forma14_cleaned_terms(self.associated_terms, <<"$">>)>>)),
                LAMBDA kw : strip(kw) # <<>>)
    IN  [self |-> self,
         value |-> ImportedCompetency(
                       self.code, self.lang, self.competency_type,
                       self.provider, self.title,
                       Url("https://centreinffo.mondeca.com/KB/index#Concept:uri=https://centre-inffo.fr/descripteur_formacode/", self.code)
                           \o <<";tab=props;">>,
                       cleaned_category, cleaned_description,
                       cleaned_keywords,
                       Either(self.indexed_text, self.title))]

\* mapper_instance.to_competency(), by provider
to_competency(self) ==
    CASE self.provider = "esco" -> esco_to_competency(self)
      [] self.provider = "rome" -> rome_to_competency(self)
      [] self.provider = "forma" -> forma_to_competency(self)
      [] self.provider = "forma14" -> forma14_to_competency(self)

----------------------------------------------------------------------------
(* The data importer: the mapper instances built from raw records, and the *)
(* calls made on them.                                                     *)

MaxCalls == 2        \* to_competency calls in a row on one instance
MaxKeywords == 2     \* keywords of a ROME record
MaxSideWords == 2    \* words on one side of an appelation's '/'
MaxDigits == 6       \* digits of a code in a FORMA 14 string
MaxFields == 2       \* fields an indexing strategy is configured with
MaxItems == 2        \* items of an imported file

\* EscoMapper instances
EscoMappers ==
    {[provider |-> "esco", competency_type |-> "occupation", lang |-> "fr",
      preferred_label |-> preferred_label, description |-> <<"b">>,
      concept_uri |-> concept_uri, alt_labels |-> alt_labels,
      hidden_labels |-> hidden_labels, code |-> code, category |-> NoText,
      broader_concept_pt |-> broader_concept_pt, indexed_text |-> NoText] :
        preferred_label \in {<<"a", "/", "b">>,
            <<" ", "a", " ", "/", " ", "b", " ", "c", " ">>,
            <<"a">>,
            <<"a", "/", "b", "/", "c">>,
            <<"a", "/">>},
        concept_uri \in {<<"1", " ">>,
            <<" ">>},
        alt_labels \in {NoText,
            <<"A", " ", "|", " ", "b">>,
            <<"b", "\n", "c">>},
        hidden_labels \in {NoText,
            <<"a", "\n", " ", "b">>},
        code \in {NoText,
            <<"c">>},
        broader_concept_pt \in {NoText,
            <<"a", " ", "|", " ", "b", " ">>}}

\* The keywords of the ROME records
RomeKeywords ==
    {<<>>,
    <<"a">>,
    <<"A">>,
    <<"a", " ", "b", "/", "c">>,
    <<"b", "/", "a", " ", "c">>,
    <<"a", "/">>}

\* RomeMapper instances
RomeMappers ==
    {[provider |-> "rome", competency_type |-> "occupation", lang |-> "fr",
      code |-> <<"A", "1">>, intitule |-> <<"a">>, category |-> <<"b">>, description |-> <<"c">>,
      keywords |-> keywords, indexed_text |-> indexed_text] :
        keywords \in UNION {[1..n -> RomeKeywords] : n \in 0..MaxKeywords},
        indexed_text \in {NoText,
            <<"c">>}}

\* FormaMapper instances
FormaMappers ==
    {[provider |-> "forma", competency_type |-> "training", lang |-> "fr",
      code |-> <<"1", "2">>, title |-> <<"a", "B">>, category |-> category, NSF |-> NSF,
      semantic_field |-> semantic_field, synonym |-> synonym,
      synonym_job |-> NoText, specific_terms |-> specific_terms,
      associated_terms |-> associated_terms, ROME |-> ROME,
      explication_note |-> explication_note, application_note |-> NoText,
      indexed_text |-> NoText] :
        category \in {<<>>,
            <<"1", "2", "3", "4", "5", " ", "a", "b">>},
        NSF \in {NoText,
            <<"1", "2", "3", " ", "a">>},
        semantic_field \in {NoText,
            <<"1", "2", "3", " ", "b">>},
        synonym \in {NoText,
            <<"A", "b", "$", " ", "c">>,
            <<"b">>},
        specific_terms \in {NoText,
            <<"1", "2", "3", "4", "5", " ", "a", "b", "$", " ", "$", "1", "2", "3", "4", "5", " ", "c">>},
        associated_terms \in {NoText,
            <<"1", "2", "3", "4", "5", " ", "B">>},
        ROME \in {NoText,
            <<"1", "2", "3", "4", "5", " ", "a", "b">>,
            <<"1", "2", "3", "4", "5", " ", "a", "$", " ">>},
        explication_note \in {NoText,
            <<"a", ".">>}}

\* Forma14Mapper instances
Forma14Mappers ==
    {[provider |-> "forma14", competency_type |-> "training", lang |-> "fr",
      code |-> <<"1", "2">>, title |-> <<"a", "B">>, category |-> category,
      semantic_field |-> semantic_field, synonym |-> synonym,
      synonym_job |-> NoText, specific_terms |-> specific_terms,
      associated_terms |-> associated_terms, application_note |-> NoText,
      explication_note |-> explication_note, indexed_text |-> NoText] :
        category \in {<<"a", " ", "-", " ", "1", "2", "3", "4", "5">>,
            <<"a", " ", "-", " ", "1", "2", "3", "4">>,
            <<"a", " ", "-", " ", "1", "2", "3", "4", "5", "6">>,
            <<"a", " ", "-", " ", "1", "2", "3", "4", "5", "\n">>,
            <<"a">>},
        semantic_field \in {<<"1", "2", "3", " ", "a", "b">>,
            <<"1", "2", "3", "4", " ", "a">>,
            <<"1", "2", " ", "a">>,
            <<"a">>,
            <<" ">>},
        synonym \in {NoText,
            <<"a", "#", "#", "#", "B">>},
        specific_terms \in {NoText,
            <<"b", " ", "-", " ", "1", "2", "3", "4", "5", "#", "#", "#", " ", "#", "#", "#", "c">>},
        associated_terms \in {NoText,
            <<"A", " ", "-", " ", "1", "2", "3", "4", "5", "$", "b">>},
        explication_note \in {NoText,
            <<" ", "a">>}}

Mappers == EscoMappers \cup RomeMappers \cup FormaMappers \cup Forma14Mappers

\* main.py: mapper_instance = mapper(provider, competency_type, lang, **data)
BuildMapper ==
    /\ last = Idle
    /\ mapper = NoMapper
    /\ \E instance \in Mappers :
          /\ mapper' = instance
          /\ last' = [op |-> "mapper", provider |-> instance.provider,
                      outcome |-> "ok", value |-> None]
    /\ UNCHANGED <<store, calls, inflight, collections, workers>>

\* mapper_instance.to_competency(), n-th call in a row on the instance
ToCompetency ==
    /\ mapper # NoMapper
    /\ last.op \in {"mapper", "to_competency"}
    /\ LET n == IF last.op = "to_competency" THEN last.n + 1 ELSE 1
           r == to_competency(mapper)
       IN  /\ n <= MaxCalls
           /\ mapper' = r.self
           /\ last' = [op |-> "to_competency", provider |-> mapper.provider,
                       n |-> n, self |-> mapper, outcome |-> "ok",
                       value |-> r.value]
    /\ UNCHANGED <<store, calls, inflight, collections, workers>>

----------------------------------------------------------------------------
(* The data importer: indexing strategies (data_importer/                  *)
(* indexing_strategies).                                                   *)

\* indexing_strategies/schemas.py: IndexingField
IndexingFields == {"title", "description", "category", "keywords"}

FieldLists == UNION {[1..n -> IndexingFields] : n \in 1..MaxFields}

\* competency.model_copy(update={"indexed_text": value})
model_copy(competency, indexed_text) ==
    [competency EXCEPT !.indexed_text = indexed_text]

\* FieldDuplicationStrategy._field_extractors[field](comp)
extract(field, comp) ==
    CASE field = "title" -> <<comp.title>>
      [] field = "description" ->
            IF Truthy(comp.description) THEN <<comp.description>> ELSE <<>>
      [] field = "category" ->
            IF Truthy(comp.category) THEN <<comp.category>> ELSE <<>>
      [] field = "keywords" -> comp.keywords

duplication_values_keep_blank(field, comp) == extract(field, comp)

\* [value for value in values if value.strip()]
duplication_values(field, comp) ==
    SelectSeq(extract(field, comp), LAMBDA value : strip(value) # <<>>)

\* FieldDuplicationStrategy.expand_competency
RECURSIVE field_duplication(_, _)
field_duplication(fields, competency) ==
    IF fields = <<>> THEN <<>>
    ELSE LET values == duplication_values(fields[1], competency)
         IN  [i \in 1..Len(values) |-> model_copy(competency, values[i])]
                 \o field_duplication(Tail(fields), competency)

\* getattr(competency, field, "")
getattr(competency, field) ==
    CASE field = "title" -> competency.title
      [] field = "description" -> competency.description
      [] field = "category" -> competency.category
      [] field = "keywords" -> competency.keywords

\* elif value: if value.endswith("."): parts.append(value[:-1]);
\* parts.append(str(value))
combination_scalar_parts(value) ==
    IF ~Truthy(value) THEN <<>>
    ELSE IF value[Len(value)] = "."
         THEN <<SubSeq(value, 1, Len(value) - 1), value>>
         ELSE <<value>>

\* The parts one field adds in FieldCombinationStrategy.expand_competency
combination_parts(field, competency) ==
    IF field = "keywords"
    THEN <<join(<<",", " ">>, NonEmpty(getattr(competency, field)))>>
    ELSE combination_scalar_parts(getattr(competency, field))

RECURSIVE combination_all_parts(_, _)
combination_all_parts(fields, competency) ==
    IF fields = <<>> THEN <<>>
    ELSE combination_parts(fields[1], competency)
             \o combination_all_parts(Tail(fields), competency)

\* FieldCombinationStrategy.expand_competency
field_combination(fields, competency) ==
    <<model_copy(competency,
                 strip(join(<<".", " ">>,
                            combination_all_parts(fields, competency))))>>

\* main.py: indexing_strategy.expand_competency(mapped_competency)
ExpandCompetency ==
    /\ last.op = "to_competency"
    /\ \E strategy \in {"field_duplication", "field_combination"},
          fields \in FieldLists :
          last' = [op |-> "expand_competency", strategy |-> strategy,
                   fields |-> fields, competency |-> last.value,
                   outcome |-> "ok",
                   value |-> IF strategy = "field_duplication"
                             THEN field_duplication(fields, last.value)
                             ELSE field_combination(fields, last.value)]
    /\ UNCHANGED <<store, calls, mapper,
                 inflight, collections, workers>>

----------------------------------------------------------------------------
(* The data importer: the choice of the indexing strategy                  *)
(* (data_importer/dependencies.py).  A field name is one character of the  *)
(* strings given as fields_to_index.                                       *)

\* dependencies.py: the keys of INDEXING_STRATEGY
INDEXING_STRATEGY == {"field_duplication", "field_combination"}

\* The values indexing_strategy is called with: the two of the registry and
\* one outside it.
IndexingStrategyValues == INDEXING_STRATEGY \cup {"INVALID"}

\* dependencies.py: DEFAULT_STRATEGY
DEFAULT_STRATEGY == <<"title", "description", "category", "keywords">>

\* fields_to_index: list[str] | str | None
StrFields(text) == [kind |-> "str", text |-> text]
ListFields(items) == [kind |-> "list", items |-> items]
NoFields == [kind |-> "None"]

\* The values fields_to_index is called with.
FieldsToIndex ==
    {NoFields}
    \cup {StrFields(v) : v \in
            {<<>>,
             <<" ">>,
             <<",">>,
             <<"title">>,
             <<"title", ",", " ", "keywords">>,
             <<" ", "keywords", ",", ",", "title", " ">>,
             <<"category", ",", "code">>,
             <<"foo">>}}
    \cup {ListFields(v) : v \in
            {<<>>,
             <<<<" ">>>>,
             <<<<"title">>>>,
             <<<<"description">>, <<" ", "category">>>>,
             <<<<"keywords">>, <<>>, <<"keywords">>>>,
             <<<<"code">>>>,
             <<<<"title">>, <<"foo">>>>}}

\* The name a stripped item of fields_to_index spells.
FieldName(item) == item[1]

\* [field.strip() for field in ... if field.strip()]
stripped_fields(items) ==
    LET kept == SelectSeq(items, LAMBDA field : strip(field) # <<>>)
    IN  [i \in 1..Len(kept) |-> FieldName(strip(kept[i]))]

\* A strategy object: its class and its self.fields.
Strategy(class, fields) == [strategy |-> class, fields |-> fields]

\* FieldDuplicationStrategy(fields): the fields with no extractor are refused.
FieldDuplicationStrategy(fields) ==
    IF Range(fields) \ IndexingFields # {}
    THEN [outcome |-> "ValueError", value |-> None]
    ELSE [outcome |-> "ok", value |-> Strategy("field_duplication", fields)]

\* FieldCombinationStrategy(fields): the fields are kept as given.
FieldCombinationStrategy(fields) ==
    [outcome |-> "ok", value |-> Strategy("field_combination", fields)]

\* strategy_class(fields=fields_to_index)
strategy_class(indexing_strategy, fields) ==
    IF indexing_strategy = "field_duplication"
    THEN FieldDuplicationStrategy(fields)
    ELSE FieldCombinationStrategy(fields)

get_indexing_strat_default_of_class(fields_to_index, indexing_strategy) ==
    IF indexing_strategy \notin INDEXING_STRATEGY
    THEN [outcome |-> "HTTPException 400", value |-> None]
    ELSE LET fields ==
                 CASE fields_to_index.kind = "str" ->
                        stripped_fields(split(fields_to_index.text, <<",">>))
                   [] fields_to_index.kind = "list" ->
                        stripped_fields(fields_to_index.items)
                   [] OTHER -> <<>>
         IN  IF Len(fields) > 0
             THEN strategy_class(indexing_strategy, fields)
             ELSE strategy_class(indexing_strategy, DEFAULT_STRATEGY)

\* dependencies.py: get_indexing_strat
get_indexing_strat(fields_to_index, indexing_strategy) ==
    IF indexing_strategy \notin INDEXING_STRATEGY
    THEN [outcome |-> "HTTPException 400", value |-> None]
    ELSE LET fields ==
                 CASE fields_to_index.kind = "str" ->
                        stripped_fields(split(fields_to_index.text, <<",">>))
                   [] fields_to_index.kind = "list" ->
                        stripped_fields(fields_to_index.items)
                   [] OTHER -> <<>>
         IN  IF Len(fields) > 0
             THEN strategy_class(indexing_strategy, fields)
             ELSE FieldDuplicationStrategy(DEFAULT_STRATEGY)

\* get_indexing_strategy / get_indexing_strategy_file: the dependency that
\* builds the strategy of an import request.
GetIndexingStrat ==
    /\ last = Idle
    /\ mapper = NoMapper
    /\ \E fields_to_index \in FieldsToIndex,
          indexing_strategy \in IndexingStrategyValues :
          LET r == get_indexing_strat(fields_to_index, indexing_strategy)
          IN  last' = [op |-> "get_indexing_strat",
                       fields_to_index |-> fields_to_index,
                       indexing_strategy |-> indexing_strategy,
                       outcome |-> r.outcome, value |-> r.value]
    /\ UNCHANGED <<store, calls, mapper,
                 inflight, collections, workers>>

----------------------------------------------------------------------------
(* The data importer: the mappers' string helpers, called on their own.    *)

\* The strings of n words over two words, single-spaced
SideWords == UNION {[1..n -> {<<"a">>, <<"b">>}] : n \in 0..MaxSideWords}

Sides == {join(<<" ">>, ws) : ws \in SideWords}

\* Appelations: no '/', one '/', between sides of any number of words, and
\* irregular ones
Appelations ==
    Sides
    \cup {l \o sep \o r : l \in Sides, r \in Sides,
                          sep \in {<<"/">>, <<" ", "/", " ">>}}
    \cup {<<"a", "/", "b", "/", "a">>,
          <<"a", " ", " ", "b", " ", "/", " ", "a">>,
          <<"/">>,
          <<" ", "a", " ", "b", "/", "b", " ">>,
          <<"b", "/", " ", "a", " ", " ", "b">>}

\* RomeMapper.clean_rome_appelation(appelation)
CleanRomeAppelation ==
    /\ last = Idle
    /\ mapper = NoMapper
    /\ \E appelation \in Appelations :
          last' = [op |-> "clean_rome_appelation", appelation |-> appelation,
                   outcome |-> "ok",
                   value |-> clean_rome_appelation(appelation)]
    /\ UNCHANGED <<store, calls, mapper,
                 inflight, collections, workers>>

\* n digits
Digits(n) == [i \in 1..n |-> IF i % 2 = 1 THEN "1" ELSE "2"]

\* Strings with a code of 0..MaxDigits digits at their start or their end
CodedTexts ==
    {pre \o Digits(n) \o post :
        n \in 0..MaxDigits,
        pre \in {<<>>,
                <<" ">>,
                <<"a", " ", "-", " ">>,
                <<"a", " ", "-", " ", "1", "2", "3", "4", "5", " ", "-", " ">>,
                <<"a">>},
        post \in {<<>>,
                 <<" ", "a">>,
                 <<" ">>,
                 <<"\n">>,
                 <<" ", "-", " ", "a">>}}

\* FormaMapper.remove_code_from_str(text, n)
RemoveCodeFromStr ==
    /\ last = Idle
    /\ mapper = NoMapper
    /\ \E text \in CodedTexts, n \in {3, 5} :
          last' = [op |-> "remove_code_from_str", text |-> text, n |-> n,
                   outcome |-> "ok", value |-> remove_code_from_str(text, n)]
    /\ UNCHANGED <<store, calls, mapper,
                 inflight, collections, workers>>

\* Forma14Mapper.remove_code_from_str_start(text, n) and
\* Forma14Mapper.remove_code_from_str_end(text, n)
RemoveCodeForma14 ==
    /\ last = Idle
    /\ mapper = NoMapper
    /\ \E text \in CodedTexts, n \in {3, 5}, at_end \in BOOLEAN :
          last' = [op |-> IF at_end THEN "remove_code_from_str_end"
                          ELSE "remove_code_from_str_start",
                   text |-> text, n |-> n, outcome |-> "ok",
                   value |-> IF at_end THEN remove_code_from_str_end(text, n)
                             ELSE remove_code_from_str_start(text, n)]
    /\ UNCHANGED <<store, calls, mapper,
                 inflight, collections, workers>>

ImporterNext ==
    \/ GetIndexingStrat
    \/ BuildMapper
    \/ ToCompetency
    \/ ExpandCompetency
    \/ CleanRomeAppelation
    \/ RemoveCodeFromStr
    \/ RemoveCodeForma14
    \/ Return

ImporterSpec == Init /\ [][ImporterNext]_vars

----------------------------------------------------------------------------
(* The data importer's routes (data_importer/main.py): import_item maps    *)
(* and expands one raw record and posts one create request per expanded    *)
(* competency to the search engine; import_file does so for every item of  *)
(* a JSON array.  The search engine answers a request with its POST        *)
(* /entities route, run on the collection.                                 *)

\* adapters/api/exception_handler.py: error_mapping, and 201 for a creation
StatusOf(outcome) ==
    CASE outcome = "ok" -> 201
      [] outcome = "ValidationError" -> 400
      [] outcome = "EntityNotFoundError" -> 404
      [] OTHER -> 500

\* CreateEntityRequest(competency=comp.model_dump(mode="json",
\* exclude_none=True)): the competency the search engine reads.
CreateEntityRequest(comp) ==
    [title |-> comp.title, indexed_text |-> comp.indexed_text]

\* What a request meets: nothing, no connection to the search engine, or a
\* failure of the search engine's encoder or store.
PostFaults == {"none", "connect", "dense", "upsert", "status"}

\* client.post(...) followed by resp.raise_for_status(): the exception
\* raised, the status of the response and the collection afterwards.
post(st, req, fault) ==
    IF fault = "connect"
    THEN [raised |-> "RequestError", status |-> 0, store |-> st]
    ELSE LET new_id == CHOOSE i \in Ids : st[i] = Absent
             r == create_entity(st, req, req.indexed_text, fault # "dense",
                                TRUE, new_id, UpsertAnswer(fault))
         IN  [raised |-> IF r.outcome = "ok" THEN "" ELSE "HTTPStatusError",
              status |-> StatusOf(r.outcome), store |-> r.store]

PostCall(req, r) ==
    [fn |-> "client.post", request |-> req,
     ret |-> [raised |-> r.raised, status |-> r.status]]

\* Lines 77-87: a request that was answered with a success.
Posted(req, r) == Run(<<PostCall(req, r)>>, "ok", None, r.store)

\* Lines 88-100: a failed request ends the handler with an HTTPException.
Failed(req, r) ==
    Run(<<PostCall(req, r)>>, "HTTPException",
        IF r.raised = "RequestError" THEN 502 ELSE r.status, r.store)

\* A run followed by the run of what comes after it.
Then(first, rest) ==
    Run(first.calls \o rest.calls, rest.outcome, rest.value, rest.store)

\* A run followed by what comes after it, whose failure is the outcome
\* when the first run ended well.
ThenEither(first, rest) ==
    IF first.outcome # "ok" /\ rest.outcome = "ok"
    THEN Run(first.calls \o rest.calls, first.outcome, first.value, rest.store)
    ELSE Then(first, rest)

\* The fault the i-th request of a handler meets: the failing-th one meets
\* `fault`, the others none.
FaultAt(i, failing, fault) == IF i = failing THEN fault ELSE "none"

RECURSIVE send_requests_past_failures(_, _, _, _, _)
send_requests_past_failures(st, requests, i, failing, fault) ==
    IF i > Len(requests) THEN Run(<<>>, "ok", None, st)
    ELSE CHOOSE run \in
            {ThenEither(IF r.raised # "" THEN Failed(requests[i], r)
                        ELSE Posted(requests[i], r),
                        send_requests_past_failures(r.store, requests, i + 1,
                                                    failing, fault)) :
                r \in {post(st, requests[i], FaultAt(i, failing, fault))}} :
            TRUE

\* Lines 72-100: the requests are posted one by one from the i-th on, each
\* on the collection its predecessor left (r is the answer to the i-th);
\* the first one that fails ends the handler.
RECURSIVE send_requests(_, _, _, _, _)
send_requests(st, requests, i, failing, fault) ==
    IF i > Len(requests) THEN Run(<<>>, "ok", None, st)
    ELSE CHOOSE run \in
            {IF r.raised # "" THEN Failed(requests[i], r)
             ELSE Then(Posted(requests[i], r),
                       send_requests(r.store, requests, i + 1, failing,
                                     fault)) :
                r \in {post(st, requests[i], FaultAt(i, failing, fault))}} :
            TRUE

\* indexing_strategy.expand_competency(mapped_competency)
expand_competency(strategy, competency) ==
    IF strategy.strategy = "field_duplication"
    THEN field_duplication(strategy.fields, competency)
    ELSE field_combination(strategy.fields, competency)

\* Lines 49-69: the create requests of one raw record.
entity_requests(item, strategy) ==
    LET expanded == expand_competency(strategy, to_competency(item).value)
    IN  [i \in 1..Len(expanded) |-> CreateEntityRequest(expanded[i])]

\* import_item: the requests are built, then sent.
import_item(st, item, strategy, failing, fault) ==
    CHOOSE run \in
        {send_requests(st, requests, 1, failing, fault) :
            requests \in {entity_requests(item, strategy)}} : TRUE

\* Lines 152-159: the items are imported one by one from the i-th on (r is
\* the run of the i-th); the exception of an import_item ends the handler.
\* `sent` requests were posted before the i-th item.
RECURSIVE import_items(_, _, _, _, _, _, _)
import_items(st, items, i, strategy, sent, failing, fault) ==
    IF i > Len(items) THEN Run(<<>>, "ok", None, st)
    ELSE CHOOSE run \in
            {IF r.outcome # "ok" THEN r
             ELSE Then(r, import_items(r.store, items, i + 1, strategy,
                                       sent + Len(r.calls), failing, fault)) :
                r \in {import_item(st, items[i], strategy, failing - sent,
                                   fault)}} : TRUE

\* import_file: a file that is no JSON or no JSON array is refused.
import_file(st, file, strategy, failing, fault) ==
    IF file.kind # "array"
    THEN Run(<<>>, "HTTPException", 400, st)
    ELSE import_items(st, file.items, 1, strategy, 0, failing, fault)

\* The raw records that are imported.
ImportItems ==
    {m \in RomeMappers : m.indexed_text = NoText /\ Len(m.keywords) <= 1
                         /\ \A i \in 1..Len(m.keywords) :
                               m.keywords[i] = <<"a">>}

\* The strategies get_indexing_strategy builds for the imports.
ImportStrategies ==
    {Strategy(class, fields) :
        class \in INDEXING_STRATEGY,
        fields \in {f \in FieldLists :
                       /\ Len(f) <= 2
                       /\ \A i \in 1..Len(f) : f[i] \in {"title", "keywords"}}}

\* The files that are imported: not JSON, a JSON object, or an array.
ImportFiles ==
    {[kind |-> "invalid"], [kind |-> "object"]}
    \cup {[kind |-> "array", items |-> items] :
            items \in UNION {[1..n -> ImportItems] : n \in 0..MaxItems}}

\* The requests of a handler find an identifier each.
Room(st, n) == n <= Cardinality({i \in Ids : st[i] = Absent})

RECURSIVE AllRequests(_, _, _)
AllRequests(items, n, strategy) ==
    IF n = 0 THEN <<>>
    ELSE AllRequests(items, n - 1, strategy)
             \o entity_requests(items[n], strategy)

\* POST /import
ImportItem ==
    /\ last = Idle
    /\ \E item \in ImportItems, strategy \in ImportStrategies :
        \E requests \in {entity_requests(item, strategy)} :
            /\ Room(store, Len(requests))
            /\ \E failing \in 0..Len(requests), fault \in PostFaults :
                 /\ (failing = 0) = (fault = "none")
                 /\ \E r \in {import_item(store, item, strategy, failing,
                                          fault)} :
                      /\ store' = r.store
                      /\ calls' = r.calls
                      /\ last' = [op |-> "import_item", items |-> <<item>>,
                                  strategy |-> strategy,
                                  outcome |-> r.outcome, value |-> r.value]
    /\ UNCHANGED <<mapper, inflight, collections, workers>>

\* The raw records of a file.
file_items(file) == IF file.kind = "array" THEN file.items ELSE <<>>

\* POST /import/file
ImportFile ==
    /\ last = Idle
    /\ \E file \in ImportFiles, strategy \in ImportStrategies :
        \E requests \in {AllRequests(file_items(file), Len(file_items(file)),
                                     strategy)} :
            /\ Room(store, Len(requests))
            /\ \E failing \in 0..Len(requests), fault \in PostFaults :
                 /\ (failing = 0) = (fault = "none")
                 /\ \E r \in {import_file(store, file, strategy, failing,
                                          fault)} :
                      /\ store' = r.store
                      /\ calls' = r.calls
                      /\ last' = [op |-> "import_file",
                                  items |-> file_items(file),
                                  file |-> file.kind, strategy |-> strategy,
                                  outcome |-> r.outcome, value |-> r.value]
    /\ UNCHANGED <<mapper, inflight, collections, workers>>

ImportNext ==
    \/ ImportItem
    \/ ImportFile
    \/ Return

ImportSpec == Init /\ [][ImportNext]_vars

----------------------------------------------------------------------------
(* Properties of the data importer.                                        *)

\* C13: two to_competency calls in a row on one mapper instance return
\* identical Competency values, for each provider, ESCO included, whose call
\* assigns code and category on the instance.
C13_MapperIdempotent ==
    [][(last.op = "to_competency" /\ last'.op = "to_competency")
       => /\ last'.n = last.n + 1
          /\ last'.self = mapper
          /\ last'.value = last.value]_vars

C13_Witness ==
    /\ last.op = "to_competency"
    /\ last.provider = "esco"
    /\ last.n = 2
    /\ last.self.code = <<"1">>
    /\ last.self.category = <<"a", ",", " ", "b">>
    /\ last.value.code = <<"1">>

\* str.lower
lower(s) == [i \in 1..Len(s) |-> Lower(s[i])]

\* No entry is empty, no two entries are equal ignoring case, and the
\* entries ascend.
KeywordsClean(keywords) ==
    /\ \A i \in 1..Len(keywords) : keywords[i] # <<>>
    /\ \A i, j \in 1..Len(keywords) :
          i # j => lower(keywords[i]) # lower(keywords[j])
    /\ \A i \in 1..(Len(keywords) - 1) :
          StrLess(keywords[i], keywords[i + 1])

\* C14 as stated: the keywords of every mapper's Competency hold no empty
\* entry and no two entries equal ignoring case, and are sorted ascending.
C14_KeywordsInvariant ==
    (last.op = "to_competency") => KeywordsClean(last.value.keywords)

\* The number of occurrences of a character in a string
Count(s, c) == Cardinality({i \in 1..Len(s) : s[i] = c})

\* The keywords an ESCO record's alt_labels and hidden_labels give: each
\* non-blank label, trimmed and capitalized.
EscoLabelKeywords(self) ==
    LET pieces(field, seps) ==
            IF ~Truthy(field) THEN {}
            ELSE LET sep == IF Contains(field, seps[1]) THEN seps[1]
                            ELSE seps[Len(seps)]
                 IN  Range(split(field, sep))
        labels == pieces(self.alt_labels, <<<<" ", "|", " ">>, <<"\n">>>>)
                      \cup pieces(self.hidden_labels, <<<<"\n">>>>)
    IN  {capitalize(strip(x)) : x \in {y \in labels : strip(y) # <<>>}}

\* The two trimmed halves of a title with one '/', capitalized
EscoTitleHalves(title) ==
    LET at == CHOOSE i \in 1..Len(title) : title[i] = "/"
    IN  {capitalize(strip(SubSeq(title, 1, at - 1))),
         capitalize(strip(SubSeq(title, at + 1, Len(title))))}

\* C15 as stated: with exactly one '/' in the cleaned title both trimmed
\* halves, capitalized, are keywords; otherwise the keywords are those of
\* alt_labels and hidden_labels only.
C15_Original ==
    (last.op = "to_competency" /\ last.provider = "esco")
        => LET keywords == Range(last.value.keywords)
           IN  IF Count(last.value.title, "/") = 1
               THEN keywords = EscoLabelKeywords(last.self)
                                   \cup EscoTitleHalves(last.value.title)
               ELSE keywords = EscoLabelKeywords(last.self)

\* C15 amended: with exactly one '/' in the cleaned title each trimmed half
\* that is not empty is a keyword, capitalized; an empty half is not; with no
\* '/' or several the keywords are those of alt_labels and hidden_labels
\* only.
C15_EscoTitleKeywords ==
    (last.op = "to_competency" /\ last.provider = "esco")
        => LET keywords == Range(last.value.keywords)
           IN  IF Count(last.value.title, "/") = 1
               THEN keywords = EscoLabelKeywords(last.self)
                                   \cup (EscoTitleHalves(last.value.title)
                                             \ {<<>>})
               ELSE keywords = EscoLabelKeywords(last.self)

C15_Witness ==
    /\ last.op = "to_competency"
    /\ last.provider = "esco"
    /\ last.self.preferred_label = <<" ", "a", " ", "/", " ", "b", " ", "c", " ">>
    /\ last.self.alt_labels = NoText
    /\ last.self.hidden_labels = NoText
    /\ last.value.keywords = <<<<"A">>, <<"B", " ", "c">>>>

\* The two items the claim C16 gives for trimmed sides left and right
RomeShared(left, right) ==
    LET wl == Len(words(left))
        wr == Len(words(right))
        P == join(<<" ">>, SubSeq(words(left), 1, wl - wr))
        S == join(<<" ">>, SubSeq(words(right), wl + 1, wr))
    IN  IF wl > wr THEN <<left, P \o <<" ">> \o right>>
        ELSE IF wr > wl THEN <<left \o <<" ">> \o S, right>>
        ELSE <<left, right>>

\* C16 as stated: without '/', or with a split on '/' that does not give two
\* parts, the appelation is returned as one unchanged item; otherwise the
\* result is [left, P + ' ' + right], [left + ' ' + S, right] or
\* [left, right] by the word counts of the trimmed sides.
C16_Original ==
    (last.op = "clean_rome_appelation")
        => LET a == last.appelation
               at == CHOOSE i \in 1..Len(a) : a[i] = "/"
           IN  IF Count(a, "/") # 1 THEN last.value = <<a>>
               ELSE last.value =
                        RomeShared(strip(SubSeq(a, 1, at - 1)),
                                   strip(SubSeq(a, at + 1, Len(a))))

\* C16 amended: as stated, each of the two items being trimmed, which
\* removes the space left over when a side is empty.
C16_CleanRomeAppelation ==
    (last.op = "clean_rome_appelation")
        => LET a == last.appelation
               at == CHOOSE i \in 1..Len(a) : a[i] = "/"
               shared == RomeShared(strip(SubSeq(a, 1, at - 1)),
                                    strip(SubSeq(a, at + 1, Len(a))))
           IN  IF Count(a, "/") # 1 THEN last.value = <<a>>
               ELSE last.value = <<strip(shared[1]), strip(shared[2])>>

C16_Witness ==
    /\ last.op = "clean_rome_appelation"
    /\ last.appelation = <<"b", "/", "a", " ", "b">>
    /\ last.value = <<<<"b", " ", "b">>, <<"a", " ", "b">>>>

\* text without its first k characters
Drop(text, k) ==
    [i \in 1..(IF Len(text) > k THEN Len(text) - k ELSE 0) |-> text[i + k]]

\* The non-blank terms of a '$'-separated field, trimmed, as a set
DollarTerms(field) ==
    IF ~Truthy(field) THEN {}
    ELSE {strip(t) : t \in {x \in Range(split(field, <<"$">>)) :
                               strip(x) # <<>>}}

\* C17: remove_code_from_str(text, n) is text without its first n + 1
\* characters; FormaMapper.to_competency removes 6 characters from the
\* category, 4 from NSF and semantic_field, and 6 from each non-blank trimmed
\* specific, associated and ROME term.
C17_FormaCodeRemoval ==
    /\ (last.op = "remove_code_from_str")
          => last.value = Drop(last.text, last.n + 1)
    /\ (last.op = "to_competency" /\ last.provider = "forma")
          => LET self == last.self
                 c == last.value
                 semantic ==
                     IF Truthy(self.semantic_field)
                     THEN {Drop(self.semantic_field, 4)} ELSE {}
                 synonym ==
                     IF Truthy(self.synonym)
                     THEN {strip(x) : x \in Range(split(self.synonym,
                                                        <<"$">>))}
                     ELSE {}
                 terms == DollarTerms(self.specific_terms)
                              \cup DollarTerms(self.associated_terms)
                              \cup DollarTerms(self.ROME)
                 expected == semantic \cup synonym
                                 \cup {Drop(t, 6) : t \in terms}
             IN  /\ Truthy(self.category)
                       => c.category = capitalize(Drop(self.category, 6))
                 /\ Truthy(self.NSF)
                       => SubSeq(c.description, 1, Len(self.NSF) - 4)
                              = Drop(self.NSF, 4)
                 /\ Range(c.keywords)
                       = {capitalize(k) : k \in expected} \ {<<>>}

C17_Witness ==
    /\ last.op = "to_competency"
    /\ last.provider = "forma"
    /\ last.self.category = <<"1", "2", "3", "4", "5", " ", "a", "b">>
    /\ last.self.NSF = <<"1", "2", "3", " ", "a">>
    /\ last.self.specific_terms = <<"1", "2", "3", "4", "5", " ", "a", "b", "$", " ", "$", "1", "2", "3", "4", "5", " ", "c">>
    /\ last.self.ROME = <<"1", "2", "3", "4", "5", " ", "a", "$", " ">>
    /\ last.self.synonym = NoText
    /\ last.self.semantic_field = NoText
    /\ last.self.associated_terms = NoText
    /\ last.value.category = <<"A", "b">>
    /\ Range(last.value.keywords) = {<<"A", "b">>, <<"C">>, <<"A">>}

\* text starts with n digits and a space
StartsWithCode(text, n) ==
    /\ Len(text) >= n + 1
    /\ \A i \in 1..n : IsDigit(text[i])
    /\ text[n + 1] = " "

\* text without a trailing " - " and n digits, when it ends with them
WithoutCodeAtEnd(text, n) ==
    IF EndsWithCode(text, n) THEN SubSeq(text, 1, Len(text) - n - 3)
    ELSE text

\* text without n leading digits and a space, when it starts with them
WithoutCodeAtStart(text, n) ==
    IF StartsWithCode(text, n) THEN Drop(text, n + 1) ELSE text

\* C18 as stated: a string loses its trailing code only when it ends with
\* " - " and exactly n digits (n = 5 for the category and the specific and
\* associated terms), and its leading code only when it starts with exactly
\* n digits and a space (n = 3 for semantic_field, which is then
\* capitalized); in every other case the string is kept unchanged.
C18_Forma14CodeRemoval ==
    /\ (last.op = "remove_code_from_str_end")
          => last.value = WithoutCodeAtEnd(last.text, last.n)
    /\ (last.op = "remove_code_from_str_start")
          => last.value = WithoutCodeAtStart(last.text, last.n)
    /\ (last.op = "to_competency" /\ last.provider = "forma14")
          => LET self == last.self
                 semantic ==
                     capitalize(WithoutCodeAtStart(self.semantic_field, 3))
             IN  /\ last.value.category = WithoutCodeAtEnd(self.category, 5)
                 /\ strip(semantic) # <<>>
                       => semantic \in Range(last.value.keywords)

\* The values the claim C19 extracts for one field: the title; the
\* description or the category when set; each keyword; blank values left out.
ExtractedValues(field, c) ==
    LET values == CASE field = "title" -> <<c.title>>
                    [] field = "keywords" -> c.keywords
                    [] OTHER -> IF c[field] \in {NoText, <<>>} THEN <<>>
                                ELSE <<c[field]>>
    IN  SelectSeq(values, LAMBDA v : ~IsBlank(v))

\* The values of fields[1..n], in order
RECURSIVE AllExtractedValues(_, _, _)
AllExtractedValues(fields, n, c) ==
    IF n = 0 THEN <<>>
    ELSE AllExtractedValues(fields, n - 1, c) \o ExtractedValues(fields[n], c)

\* C19: FieldDuplicationStrategy returns, in the order of its field list, one
\* copy of the competency per non-blank extracted value, equal to the input
\* in every attribute but indexed_text, which is that value.
C19_FieldDuplication ==
    (last.op = "expand_competency" /\ last.strategy = "field_duplication")
        => LET c == last.competency
               values == AllExtractedValues(last.fields, Len(last.fields), c)
           IN  /\ Len(last.value) = Len(values)
               /\ \A i \in 1..Len(values) :
                     /\ last.value[i].indexed_text = values[i]
                     /\ DOMAIN last.value[i] = DOMAIN c
                     /\ \A a \in DOMAIN c \ {"indexed_text"} :
                           last.value[i][a] = c[a]

C19_Witness ==
    /\ last.op = "expand_competency"
    /\ last.strategy = "field_duplication"
    /\ last.fields = <<"keywords", "title">>
    /\ last.competency.keywords = <<<<>>, <<"a">>>>
    /\ Len(last.value) = 2
    /\ last.value[1].indexed_text = <<"a">>
    /\ last.value[2].indexed_text = last.competency.title

\* The segment the claim C20 gives for one field: the non-empty items of a
\* list joined with ", "; a scalar without its one trailing period; nothing
\* for a scalar that is not set.
Segment(field, c) ==
    IF field = "keywords" THEN <<join(<<",", " ">>, NonEmpty(c.keywords))>>
    ELSE IF c[field] \in {NoText, <<>>} THEN <<>>
    ELSE IF c[field][Len(c[field])] = "."
         THEN <<SubSeq(c[field], 1, Len(c[field]) - 1)>>
         ELSE <<c[field]>>

\* The segments of fields[1..n], in order
RECURSIVE Segments(_, _, _)
Segments(fields, n, c) ==
    IF n = 0 THEN <<>>
    ELSE Segments(fields, n - 1, c) \o Segment(fields[n], c)

\* C20 as stated: FieldCombinationStrategy returns exactly one competency,
\* the input with indexed_text the ". "-join, stripped, of one segment per
\* requested field: a list's items joined with ", ", a scalar with its one
\* trailing period removed.
C20_FieldCombination ==
    (last.op = "expand_competency" /\ last.strategy = "field_combination")
        => LET c == last.competency
               text == strip(join(<<".", " ">>,
                                  Segments(last.fields, Len(last.fields), c)))
           IN  last.value = <<[c EXCEPT !.indexed_text = text]>>

----------------------------------------------------------------------------
(* Properties of the choice of the indexing strategy.                      *)

\* The pieces of a string between its commas, in order.
CommaPieces(s) ==
    LET commas == {i \in 1..Len(s) : s[i] = ","}
        cuts == commas \cup {0, Len(s) + 1}
        starts == {i \in cuts : i <= Len(s)}
        NextCut(i) == CHOOSE j \in cuts : j > i /\ \A k \in cuts : k > i => j <= k
        Nth(n) == CHOOSE i \in starts : Cardinality({j \in starts : j < i}) = n - 1
    IN  [n \in 1..Cardinality(starts) |->
            SubSeq(s, Nth(n) + 1, NextCut(Nth(n)) - 1)]

\* The field names a caller supplies: the items that are not blank, without
\* the whitespace around them, in the order given.
SuppliedFields(fields_to_index) ==
    LET items == CASE fields_to_index.kind = "str" ->
                        CommaPieces(fields_to_index.text)
                   [] fields_to_index.kind = "list" -> fields_to_index.items
                   [] OTHER -> <<>>
        named == SelectSeq(items, LAMBDA item : ~IsBlank(item))
    IN  [i \in 1..Len(named) |-> Trimmed(named[i])[1]]

\* C21: with no field supplied (None, empty list, blank string or blank
\* items only) get_indexing_strat returns Field Duplication over title,
\* description, category, keywords in that order, whatever kind was
\* requested; with at least one field supplied, the strategy it returns is
\* of the requested kind and holds exactly the supplied fields in order,
\* and it returns one whenever every supplied field is one of the four.
C21_IndexingStrategyChoice ==
    (last.op = "get_indexing_strat"
     /\ last.indexing_strategy \in {"field_duplication", "field_combination"})
        => LET supplied == SuppliedFields(last.fields_to_index)
           IN  IF supplied = <<>>
               THEN /\ last.outcome = "ok"
                    /\ last.value.strategy = "field_duplication"
                    /\ last.value.fields =
                           <<"title", "description", "category", "keywords">>
               ELSE /\ last.outcome = "ok" =>
                           /\ last.value.strategy = last.indexing_strategy
                           /\ last.value.fields = supplied
                    /\ (\A i \in 1..Len(supplied) : supplied[i] \in
                           {"title", "description", "category", "keywords"})
                           => last.outcome = "ok"

C21_Witness ==
    /\ last.op = "get_indexing_strat"
    /\ last.indexing_strategy = "field_combination"
    /\ last.fields_to_index = StrFields(<<" ">>)
    /\ last.outcome = "ok"
    /\ last.value.strategy = "field_duplication"

\* C22: building an indexing strategy of either kind with a field name
\* outside title, description, category, keywords fails with a
\* configuration error at construction, with nothing expanded, encoded or
\* stored.
C22_UnknownFieldRefused ==
    (last.op = "get_indexing_strat"
     /\ last.indexing_strategy \in {"field_duplication", "field_combination"}
     /\ \E i \in 1..Len(SuppliedFields(last.fields_to_index)) :
            SuppliedFields(last.fields_to_index)[i] \notin
                {"title", "description", "category", "keywords"})
        => (last.outcome = "ValueError" /\ calls = <<>>
            /\ \A i \in Ids : store[i] = Absent)

----------------------------------------------------------------------------
(* Application start-up: every worker process runs lifespan                *)
(* (adapters/api/main.py), which calls                                     *)
(* QdrantClientWrapper.create_db_collection_if_not_exists                  *)
(* (adapters/infrastructure/qdrant/client.py).  The wrapper makes two      *)
(* calls to the Qdrant instance, get_collections and create_collection;    *)
(* the calls of different workers interleave.                              *)

\* config.get_db_collection()
collection_name == "competencies"

\* A worker between its two calls, and a worker whose call has ended.
\* listed: the names get_collections gave (listed_ok: it gave some);
\* create: the answer of create_collection, "none" when it was not called;
\* fault: the failure the Qdrant client met on its own, "none" without one.
Creating(listed) ==
    [pc |-> "create", listed_ok |-> TRUE, listed |-> listed,
     create |-> "none", fault |-> "none", outcome |-> "ok"]
Ended(listed_ok, listed, create, fault, outcome) ==
    [pc |-> "done", listed_ok |-> listed_ok, listed |-> listed,
     create |-> create, fault |-> fault, outcome |-> outcome]

\* Lines 81-99: the collection is looked up in what get_collections gives.
check_collection(cols, name, listed_ok) ==
    IF ~listed_ok
    THEN Ended(FALSE, {}, "none", "list", "CollectionCreationError")
    ELSE IF name \in cols THEN Ended(TRUE, cols, "none", "none", "ok")
    ELSE Creating(cols)

\* client.create_collection on the Qdrant instance: it raises under a fault
\* and for a name it already holds, answers False without creating, or
\* creates the collection and answers True.
qdrant_create_collection(cols, name, fault) ==
    IF fault = "create" \/ name \in cols
    THEN [answer |-> "raised", collections |-> cols]
    ELSE IF fault = "false" THEN [answer |-> "False", collections |-> cols]
    ELSE [answer |-> "True", collections |-> cols \cup {name}]

create_collection_any_answer(worker, answer, fault) ==
    Ended(TRUE, worker.listed, answer, fault,
          IF answer = "raised" THEN "CollectionCreationError" ELSE "ok")

\* Lines 106-144: an exception of create_collection, or an answer that is
\* not True, ends in CollectionCreationError.
create_collection(worker, answer, fault) ==
    Ended(TRUE, worker.listed, answer, fault,
          IF answer = "True" THEN "ok" ELSE "CollectionCreationError")

\* Lines 81-99 of a worker's create_db_collection_if_not_exists
CheckCollection ==
    \E w \in Workers, fault \in {"none", "list"} :
        /\ workers[w].pc = "start"
        /\ workers' = [workers EXCEPT ![w] =
               check_collection(collections, collection_name, fault = "none")]
        /\ UNCHANGED <<store, last, calls, mapper, inflight, collections>>

\* Lines 106-144 of a worker's create_db_collection_if_not_exists
CreateCollection ==
    \E w \in Workers, fault \in {"none", "create", "false"} :
        /\ workers[w].pc = "create"
        /\ LET r == qdrant_create_collection(collections, collection_name,
                                             fault)
           IN  /\ collections' = r.collections
               /\ workers' = [workers EXCEPT ![w] =
                      create_collection(workers[w], r.answer, fault)]
        /\ UNCHANGED <<store, last, calls, mapper, inflight>>

StartupNext ==
    \/ CheckCollection
    \/ CreateCollection

StartupSpec == Init /\ [][StartupNext]_vars

----------------------------------------------------------------------------
(* Properties of the start-up.                                             *)

\* C23: create_db_collection_if_not_exists calls create_collection only
\* when the name is absent from the list the store gave; when the name is
\* listed it returns without error and without a create call; when it
\* returns normally after a create the collection exists; a failed listing,
\* a failed create or a create answer other than True ends in
\* CollectionCreationError.
C23_CreateIfNotExists ==
    \A w \in Workers :
        workers[w].pc = "done" =>
            LET run == workers[w]
            IN  /\ run.create # "none" =>
                       (run.listed_ok /\ "competencies" \notin run.listed)
                /\ (run.listed_ok /\ "competencies" \in run.listed) =>
                       (run.outcome = "ok" /\ run.create = "none")
                /\ (run.outcome = "ok" /\ run.create # "none") =>
                       "competencies" \in collections
                /\ (~run.listed_ok \/ run.create \in {"raised", "False"}) =>
                       run.outcome = "CollectionCreationError"

C23_Witness ==
    \E v, w \in Workers :
        /\ workers[v].pc = "done" /\ workers[v].create = "True"
        /\ workers[v].outcome = "ok"
        /\ workers[w].pc = "done" /\ workers[w].create = "none"
        /\ workers[w].listed = {"competencies"} /\ workers[w].outcome = "ok"

\* C30: when the workers start up concurrently against a store without the
\* collection and the store's client meets no failure of its own, the
\* collection is created exactly once and no worker's
\* create_db_collection_if_not_exists ends in CollectionCreationError.
C30_ConcurrentStartup ==
    (\A w \in Workers : workers[w].pc = "done" /\ workers[w].fault = "none")
        => /\ \A w \in Workers : workers[w].outcome = "ok"
           /\ Cardinality({w \in Workers : workers[w].create = "True"}) = 1

----------------------------------------------------------------------------
(* The entity routes served concurrently (adapters/api/entity/router.py).  *)
(* A request is served by one process; the steps of different requests     *)
(* interleave between the calls a handler makes to the repository: a       *)
(* creation makes one such call, an update and a deletion make two         *)
(* (get_entity, then the upsert or the deletion).                          *)

\* The competencies of the requests.
RouteCompetency ==
    [title : Titles, indexed_text : {NoText, <<" ", "a">>, <<"b">>}]

\* router.py line 100: the text given to update_entity
update_text(competency) ==
    IF Truthy(competency.indexed_text) THEN competency.indexed_text
    ELSE NoText

\* A handler between its two repository calls, and a handler that has ended.
\* entity: what get_entity returned to the handler.
Pending(op, identifier, competency, entity) ==
    [pc |-> "write", op |-> op, identifier |-> identifier,
     competency |-> competency, entity |-> entity]
Done(op, identifier, outcome) ==
    [pc |-> "done", op |-> op, identifier |-> identifier,
     outcome |-> outcome]

\* After get_entity: the handler ends if it raised, and goes on otherwise.
AfterGet(op, identifier, competency, got) ==
    IF got.outcome # "ok" THEN Done(op, identifier, got.outcome)
    ELSE Pending(op, identifier, competency, got.value)

\* The get_entity that returned `entity` to the handler.
Got(identifier, entity, st) ==
    Run(<<GetCall(identifier, Returned(entity))>>, "ok", entity, st)

\* Process p takes a request.  It takes one once the responses of the ended
\* requests are sent, so that two requests a state shows together were in
\* progress at the same time.
Accepts(p) ==
    /\ inflight[p] = NoRequest
    /\ \A q \in Procs : inflight[q].pc # "done"

\* POST /entities: service.create_entity(req.competency,
\* req.competency.indexed_text)
PostEntity ==
    \E p \in Procs, competency \in RouteCompetency,
       fault \in {"none", "dense", "sparse", "upsert", "status"},
       new_id \in {i \in Ids : store[i] = Absent} :
        /\ Accepts(p)
        /\ LET r == create_entity(store, competency, competency.indexed_text,
                                  fault # "dense", fault # "sparse", new_id,
                                  UpsertAnswer(fault))
           IN  /\ store' = r.store
               /\ inflight' = [inflight EXCEPT ![p] =
                      Done("create_entity", NoId, r.outcome)]
        /\ UNCHANGED <<last, calls, mapper, collections, workers>>

\* PUT /entities/{id}, line 118 of update_entity: get_entity
PutEntityGet ==
    \E p \in Procs, identifier \in Ids, competency \in RouteCompetency,
       fault \in {"none", "retrieve"} :
        /\ Accepts(p)
        /\ inflight' = [inflight EXCEPT ![p] =
               AfterGet("update_entity", identifier, competency,
                        get_entity(store, identifier, fault # "retrieve"))]
        /\ UNCHANGED <<store, last, calls, mapper, collections, workers>>

\* PUT /entities/{id}, lines 120-144 of update_entity: the upsert
PutEntityWrite ==
    \E p \in Procs, fault \in {"none", "dense", "sparse", "upsert"} :
        /\ inflight[p].pc = "write"
        /\ inflight[p].op = "update_entity"
        /\ LET req == inflight[p]
               r == update_entity_write(store,
                                        Got(req.identifier, req.entity, store),
                                        req.identifier,
                                        req.competency,
                                        update_text(req.competency),
                                        fault # "dense", fault # "sparse",
                                        UpsertAnswer(fault))
           IN  /\ store' = r.store
               /\ inflight' = [inflight EXCEPT ![p] =
                      Done("update_entity", req.identifier, r.outcome)]
        /\ UNCHANGED <<last, calls, mapper, collections, workers>>

\* DELETE /entities/{id}, line 152 of delete_entity: get_entity
DeleteEntityGet ==
    \E p \in Procs, identifier \in Ids, fault \in {"none", "retrieve"} :
        /\ Accepts(p)
        /\ inflight' = [inflight EXCEPT ![p] =
               AfterGet("delete_entity", identifier, None,
                        get_entity(store, identifier, fault # "retrieve"))]
        /\ UNCHANGED <<store, last, calls, mapper, collections, workers>>

\* DELETE /entities/{id}, line 154 of delete_entity: the deletion
DeleteEntityWrite ==
    \E p \in Procs, fault \in {"none", "delete"} :
        /\ inflight[p].pc = "write"
        /\ inflight[p].op = "delete_entity"
        /\ LET req == inflight[p]
               r == delete_entity_write(store,
                                        Got(req.identifier, req.entity, store),
                                        req.identifier,
                                        fault # "delete")
           IN  /\ store' = r.store
               /\ inflight' = [inflight EXCEPT ![p] =
                      Done("delete_entity", req.identifier, r.outcome)]
        /\ UNCHANGED <<last, calls, mapper, collections, workers>>

\* The response is sent: the process serves no request any more.
Respond ==
    \E p \in Procs :
        /\ inflight[p].pc = "done"
        /\ inflight' = [inflight EXCEPT ![p] = NoRequest]
        /\ UNCHANGED <<store, last, calls, mapper, collections, workers>>

ConcurrentNext ==
    \/ PostEntity
    \/ PutEntityGet
    \/ PutEntityWrite
    \/ DeleteEntityGet
    \/ DeleteEntityWrite
    \/ Respond

ConcurrentSpec == Init /\ [][ConcurrentNext]_vars

----------------------------------------------------------------------------
(* Properties of the concurrent routes.                                    *)

\* C24: after any sequence and interleaving of creations and updates made
\* through POST /entities and PUT /entities/{id}, every stored entity whose
\* competency has a non-blank indexed_text holds the dense and the sparse
\* encoding of that indexed_text trimmed.
C24_VectorsMatchIndexedText ==
    \A i \in Ids :
        (store[i] # Absent /\ ~IsBlank(StoredText(store[i]))) =>
            /\ StoredDense(store[i]) =
                   DenseEncode(Trimmed(StoredText(store[i])))
            /\ StoredSparse(store[i]) =
                   SparseEncode(Trimmed(StoredText(store[i])))

C24_Witness ==
    \E p, q \in Procs :
        /\ inflight[p].pc = "done" /\ inflight[p].op = "update_entity"
        /\ inflight[p].outcome = "ok"
        /\ StoredText(store[inflight[p].identifier]) = <<" ", "a">>
        /\ inflight[q].pc = "write" /\ inflight[q].op = "update_entity"
        /\ inflight[q].identifier = inflight[p].identifier
        /\ inflight[q].entity.competency.indexed_text = <<"b">>

\* C25: under any interleaving of update_entity and delete_entity on the
\* same identifier, the write of update_entity never stores an entity under
\* an identifier that is absent from the store at the time of the write.
C25_UpdateNeverRecreates ==
    [][\A p \in Procs :
          (inflight[p].pc = "write" /\ inflight[p].op = "update_entity"
           /\ inflight'[p].pc = "done"
           /\ store[inflight[p].identifier] = Absent)
              => store'[inflight[p].identifier] = Absent]_vars

\* Both processes hold an ended delete_entity on the same identifier.
TwoDeletesEnded ==
    /\ \A p \in Procs : inflight[p].pc = "done"
                        /\ inflight[p].op = "delete_entity"
    /\ \A p, q \in Procs : inflight[p].identifier = inflight[q].identifier

\* C26 as stated: of two concurrent delete_entity calls on the same
\* identifier at most one returns successfully, and the identifier is
\* absent once both have ended.
C26_Original ==
    TwoDeletesEnded =>
        /\ Cardinality({p \in Procs : inflight[p].outcome = "ok"}) <= 1
        /\ (\E p \in Procs : inflight[p].outcome = "ok") =>
               \A p \in Procs : store[inflight[p].identifier] = Absent

\* C26: of two concurrent delete_entity calls on the same identifier each
\* one returns successfully or raises EntityNotFoundError or
\* RepositoryError, both may return successfully, and once both have ended
\* the identifier is absent if one of them returned successfully.
C26_ConcurrentDeletes ==
    TwoDeletesEnded =>
        /\ \A p \in Procs : inflight[p].outcome \in
               {"ok", "EntityNotFoundError", "RepositoryError"}
        /\ (\E p \in Procs : inflight[p].outcome = "ok") =>
               \A p \in Procs : store[inflight[p].identifier] = Absent

C26_Witness ==
    /\ TwoDeletesEnded
    /\ \A p \in Procs : inflight[p].outcome = "ok"

----------------------------------------------------------------------------
(* Properties of the reading operations of EntityService.                  *)

\* The repository calls of a log.
RepositoryCalls(cs) ==
    SelectSeq(cs, LAMBDA c : ~IsEncoderCall(c))

\* C28: get_entity and search_by_text_and_filters_with_type, succeeding or
\* failing, leave the stored entities, their competencies and their vectors
\* unchanged; and the repository call they issue is determined by the
\* arguments of the call and the encoders' outputs alone: get_entity issues
\* repository.get_entity on its identifier, a search issues at most one
\* repository search, on the encodings of its trimmed text, its filters and
\* its top.
C28_ReadsLeaveStoreAlone ==
    [][(last = Idle /\ last'.op \in {"get_entity", "search"})
       => LET issued == RepositoryCalls(calls')
              t == Trimmed(last'.text)
          IN  /\ store' = store
              /\ last'.op = "get_entity" =>
                    /\ Len(issued) = 1
                    /\ issued[1].fn = "repository.get_entity"
                    /\ issued[1].identifier = last'.identifier
              /\ last'.op = "search" =>
                    /\ Len(issued) <= 1
                    /\ Len(issued) = 1 =>
                          /\ issued[1].filters = last'.filters
                          /\ issued[1].top = last'.top
                          /\ CASE last'.search_type = "semantic" ->
                                    /\ issued[1].vector_name = "dense"
                                    /\ issued[1].vector = DenseEncode(t)
                               [] last'.search_type = "sparse" ->
                                    /\ issued[1].vector_name = "sparse"
                                    /\ issued[1].vector = SparseEncode(t)
                               [] last'.search_type = "hybrid" ->
                                    /\ issued[1].dense_vector = DenseEncode(t)
                                    /\ issued[1].sparse_vector =
                                           SparseEncode(t)
                               [] OTHER -> FALSE]_vars

C28_Witness ==
    /\ last.op = "search"
    /\ last.search_type = "sparse"
    /\ last.text = <<" ", "a">>
    /\ last.outcome = "ok"
    /\ Len(last.value) >= 1
    /\ \A i \in Ids : store[i] # Absent

----------------------------------------------------------------------------
(* Properties of the competencies the importer sends.                      *)

\* C29: every competency an indexing strategy produces, for any mapped
\* competency and any field list, has a non-blank indexed_text, so that
\* create_entity does not reject it for an empty text.
C29_ExpandedTextNotBlank ==
    last.op = "expand_competency" =>
        \A i \in 1..Len(last.value) :
            /\ ~IsBlank(last.value[i].indexed_text)
            /\ create_entity([id \in Ids |-> Absent], last.value[i],
                             last.value[i].indexed_text, TRUE, TRUE, 1,
                             "completed").outcome # "ValidationError"


====
